---------------------------- MODULE Spec2Model ----------------------------
(***************************************************************************)
(* Scoring and pattern-detection engine of the stock analyzer.             *)
(*                                                                         *)
(* Two revisions of the program are modelled:                              *)
(*   "v2.5.2"  src/stock_intelligence_v2.5.2_secure.py  (baseline additive *)
(*             pattern score)                                              *)
(*   "v0.3.0"  src/tests/deprecated/stock_intelligence.py (weighted tanh   *)
(*             pattern score, backtester, comparator)                      *)
(*                                                                         *)
(* Numbers are fixed point.  Scores are in hundredths (3.0 is 300); RSI in *)
(* points; MACD in hundredths; volumes in shares; prices and moving        *)
(* averages in price ticks; price_change_1m and volatility in thousandths; *)
(* market cap and revenue in $1e9; P/E in units; debt/equity in            *)
(* hundredths; EPS in dollars; beta, rates and unemployment in tenths.     *)
(***************************************************************************)
EXTENDS Integers, Sequences, FiniteSets, TLC

VARIABLES
    revision,    \* which revision of the program runs
    tech,        \* the technical snapshot dict handed to compute_pattern_score
    patCalls,    \* number of compute_pattern_score calls made on tech
    patFirst,    \* result of the first call
    patLast,     \* result of the latest call
    fund,        \* data["fundamental"]
    macro,       \* data["macro"]
    fpTieUp,     \* side on which float rounding lands an exact decimal tie
    scoreCalls,  \* number of calculate_scores calls made on the data
    scoresFirst, \* result of the first call
    scoresLast,  \* result of the latest call
    btCall,      \* arguments of backtest_pattern and the bars Polygon returns
    btResult,    \* what backtest_pattern returned
    market,      \* per ticker, what collect_all_data yields for it
    cmpTickers,  \* the list handed to compare_stocks
    cmpResult,   \* what compare_stocks returned
    wfArgs,      \* timeout and skip_polling of analyze_and_sync_to_notion
    wfPc,        \* where the polling workflow stands
    wfNow,       \* seconds since start_time of wait_for_analysis_completion
    wfReady,     \* what wait_for_analysis_completion returned
    wfLog,       \* what the requests of the run met: polls, timeout patch, archive
    pageStatus,  \* Content Status of the Stock Analyses page ("" is no select)
    pageBlocks,  \* types of the blocks of the Stock Analyses page
    pageEdits,   \* number of status changes made in Notion during the wait
    historyPages,\* Stock History pages created by the run
    historyId,   \* history_page_id at the end of the run (0 is None)
    dqData,      \* the technical and fundamental dicts handed to _build_properties
    dqProps      \* the properties _build_properties returned

patVars == <<tech, patCalls, patFirst, patLast>>
scoreVars == <<fund, macro, fpTieUp, scoreCalls, scoresFirst, scoresLast>>
btVars == <<btCall, btResult>>
cmpVars == <<market, cmpTickers, cmpResult>>
wfVars == <<wfArgs, wfPc, wfNow, wfReady, wfLog, pageStatus, pageBlocks, pageEdits,
            historyPages, historyId>>
dqVars == <<dqData, dqProps>>
vars == <<revision, patVars, scoreVars, btVars, cmpVars, wfVars, dqVars>>

(***************************************************************************)
(* Python values held in the dicts.  k is the kind of value:               *)
(*   "absent"  the key is not in the dict                                  *)
(*   "none"    None                                                        *)
(*   "num"     the int/float v                                             *)
(*   "str"     a string that spells the number v, e.g. "20"                *)
(*   "empty"   the string ""                                               *)
(*   "nonestr" the string "None"                                           *)
(*   "bad"     a string float() cannot parse, e.g. "abc"                   *)
(***************************************************************************)
Absent == [k |-> "absent", v |-> 0]
PyNone == [k |-> "none", v |-> 0]
Num(n) == [k |-> "num", v |-> n]
Str(n) == [k |-> "str", v |-> n]
EmptyStr == [k |-> "empty", v |-> 0]
NoneStr == [k |-> "nonestr", v |-> 0]
BadStr == [k |-> "bad", v |-> 0]

IsNone(x) == x.k = "none"

\* dict.get(key): None when the key is missing
get(d, key) == IF d[key].k = "absent" THEN PyNone ELSE d[key]

\* dict.setdefault(key, value): writes only when the key is missing
setdefault(d, key, value) ==
    IF d[key].k = "absent" THEN [d EXCEPT ![key] = value] ELSE d

safe_float(x, default) ==
    IF x.k \in {"none", "empty", "nonestr"} THEN default
    ELSE IF x.k \in {"num", "str"} THEN Num(x.v)
    ELSE default

(***************************************************************************)
(* Rounding.  RoundHalfEven(n, d) is n/d rounded to the nearest integer,   *)
(* ties to even, for d > 0 (Python's round()).                             *)
(***************************************************************************)
Abs(x) == IF x < 0 THEN -x ELSE x
Min(a, b) == IF a < b THEN a ELSE b
Max(a, b) == IF a > b THEN a ELSE b

RoundHalfEven(n, d) ==
    LET q == n \div d
        r == n % d
    IN  IF 2 * r > d THEN q + 1
        ELSE IF 2 * r < d THEN q
        ELSE IF q % 2 = 0 THEN q ELSE q + 1

(***************************************************************************)
(* The three dicts of the collected data, each with no key set.            *)
(***************************************************************************)
EmptyTech ==
    [is_dict |-> TRUE,
     current_price |-> Absent, ma_50 |-> Absent, ma_200 |-> Absent,
     prev_ma_50 |-> Absent, prev_ma_200 |-> Absent, rsi |-> Absent,
     macd |-> Absent, macd_signal |-> Absent, macd_previous |-> Absent,
     volume |-> Absent, avg_volume_20d |-> Absent,
     price_change_1m |-> Absent, volatility_30d |-> Absent,
     daily_closes_full |-> <<>>]

EmptyFund ==
    [market_cap |-> Absent, pe_ratio |-> Absent, debt_to_equity |-> Absent,
     revenue_ttm |-> Absent, eps |-> Absent, beta |-> Absent]

EmptyMacro ==
    [fed_funds_rate |-> Absent, unemployment |-> Absent, consumer_sentiment |-> Absent]

\* the data dict handed to calculate_scores
Data(t, f, m) == [technical |-> t, fundamental |-> f, macro |-> m]

(***************************************************************************)
(* Pattern detection                                                       *)
(***************************************************************************)
MaWindowShort == 50
MaWindowLong == 200
MinClosesForPrev == 201

\* A close that is not a number (None or a string): sum() raises on it.
BadClose == -1

RECURSIVE SumSeq(_)
SumSeq(s) == IF Len(s) = 0 THEN 0 ELSE Head(s) + SumSeq(Tail(s))

(***************************************************************************)
(* daily_closes_full is held run-length encoded: a sequence of runs        *)
(* [c |-> close, n |-> how many times in a row], oldest first.  An empty   *)
(* sequence is a missing key or an empty list.                             *)
(***************************************************************************)
\* len(closes)
ClosesLen(runs) == SumSeq([i \in 1..Len(runs) |-> runs[i].n])

\* 1-based position of the first close of run i
RunStart(runs, i) == 1 + SumSeq([j \in 1..(i - 1) |-> runs[j].n])

\* how many closes of run i lie at positions lo..hi
Overlap(runs, i, lo, hi) ==
    LET first == Max(lo, RunStart(runs, i))
        last == Min(hi, RunStart(runs, i) + runs[i].n - 1)
    IN  Max(0, last - first + 1)

\* sum(closes[lo..hi])
SumRange(runs, lo, hi) ==
    SumSeq([i \in 1..Len(runs) |-> runs[i].c * Overlap(runs, i, lo, hi)])

HasBadClose(runs, lo, hi) ==
    \E i \in 1..Len(runs) : runs[i].c = BadClose /\ Overlap(runs, i, lo, hi) > 0

\* closes[-(w+1):-1]: the w closes before the latest one (1-based lo..hi)
PrevWindowLo(closes, w) == ClosesLen(closes) - w
PrevWindowHi(closes) == ClosesLen(closes) - 1

\* sum(closes[-(w+1):-1]) / w, as a value; "raise" when sum() raises
PrevMean(closes, w) ==
    LET lo == PrevWindowLo(closes, w)
        hi == PrevWindowHi(closes)
    IN  IF HasBadClose(closes, lo, hi) THEN [k |-> "raise", v |-> 0]
        ELSE Num(SumRange(closes, lo, hi) \div w)

_derive_prev_mas(t) ==
    LET closes == t.daily_closes_full
    IN  IF ClosesLen(closes) < MinClosesForPrev THEN t
        ELSE LET m50 == PrevMean(closes, MaWindowShort)
             IN  IF m50.k = "raise" THEN t
                 ELSE LET t1 == setdefault(t, "prev_ma_50", m50)
                          m200 == PrevMean(closes, MaWindowLong)
                      IN  IF m200.k = "raise" THEN t1
                          ELSE setdefault(t1, "prev_ma_200", m200)

\* _detect_cross taking equal prior averages for "was above"
_detect_cross_nonstrict(prev_a, prev_b, cur_a, cur_b) ==
    IF IsNone(prev_a) \/ IsNone(prev_b) \/ IsNone(cur_a) \/ IsNone(cur_b)
    THEN <<FALSE, FALSE>>
    ELSE LET was_above == prev_a.v >= prev_b.v
             is_above == cur_a.v > cur_b.v
         IN  IF ~was_above /\ is_above THEN <<TRUE, FALSE>>
             ELSE IF was_above /\ ~is_above THEN <<FALSE, TRUE>>
             ELSE <<FALSE, FALSE>>

\* returns <<bullish cross, bearish cross>>
_detect_cross(prev_a, prev_b, cur_a, cur_b) ==
    IF IsNone(prev_a) \/ IsNone(prev_b) \/ IsNone(cur_a) \/ IsNone(cur_b)
    THEN <<FALSE, FALSE>>
    ELSE LET was_above == prev_a.v > prev_b.v
             is_above == cur_a.v > cur_b.v
         IN  IF ~was_above /\ is_above THEN <<TRUE, FALSE>>
             ELSE IF was_above /\ ~is_above THEN <<FALSE, TRUE>>
             ELSE <<FALSE, FALSE>>

_map_signal(score) ==
    IF score <= 200 THEN "Extremely Bearish"
    ELSE IF score <= 250 THEN "Bearish"
    ELSE IF score <= 350 THEN "Neutral"
    ELSE IF score <= 400 THEN "Bullish"
    ELSE "Extremely Bullish"

\* the score left as the sum of the increments
ClampNone(score) == score

\* max(1.0, min(5.0, score))
Clamp(score) == Max(100, Min(500, score))

(***************************************************************************)
(* The detection rules, shared by both revisions.  Each rule yields        *)
(* dir (+1 bullish, -1 bearish, 0 nothing) and the pattern name; the rules *)
(* run in the order of the code, which is the order of "detected".         *)
(***************************************************************************)
Readings(t) ==
    [price      |-> safe_float(get(t, "current_price"), PyNone),
     ma50       |-> safe_float(get(t, "ma_50"), PyNone),
     ma200      |-> safe_float(get(t, "ma_200"), PyNone),
     prev_ma50  |-> safe_float(get(t, "prev_ma_50"), PyNone),
     prev_ma200 |-> safe_float(get(t, "prev_ma_200"), PyNone),
     rsi        |-> safe_float(get(t, "rsi"), PyNone),
     macd       |-> safe_float(get(t, "macd"), PyNone),
     macd_sig   |-> safe_float(get(t, "macd_signal"), PyNone),
     macd_prev  |-> safe_float(get(t, "macd_previous"), PyNone),
     vol        |-> safe_float(get(t, "volume"), PyNone),
     avg_vol    |-> safe_float(get(t, "avg_volume_20d"), PyNone)]

CrossRule(r) ==
    LET c == _detect_cross(r.prev_ma50, r.prev_ma200, r.ma50, r.ma200)
    IN  (IF c[1] THEN <<[dir |-> 1, name |-> "Golden Cross"]>> ELSE <<>>)
        \o (IF c[2] THEN <<[dir |-> -1, name |-> "Death Cross"]>> ELSE <<>>)

\* the trend read from the price against MA50 alone
TrendRule_price(r) ==
    IF IsNone(r.price) \/ IsNone(r.ma50) \/ IsNone(r.ma200) THEN <<>>
    ELSE IF r.price.v > r.ma50.v
         THEN <<[dir |-> 1, name |-> "Strong Uptrend"]>>
    ELSE IF r.price.v < r.ma50.v
         THEN <<[dir |-> -1, name |-> "Strong Downtrend"]>>
    ELSE <<>>

TrendRule(r) ==
    IF IsNone(r.price) \/ IsNone(r.ma50) \/ IsNone(r.ma200) THEN <<>>
    ELSE IF r.price.v > r.ma50.v /\ r.ma50.v > r.ma200.v
         THEN <<[dir |-> 1, name |-> "Strong Uptrend"]>>
    ELSE IF r.price.v < r.ma50.v /\ r.ma50.v < r.ma200.v
         THEN <<[dir |-> -1, name |-> "Strong Downtrend"]>>
    ELSE <<>>

RsiOversold == 30
RsiOverbought == 70

RsiRule(r) ==
    IF IsNone(r.rsi) THEN <<>>
    ELSE IF r.rsi.v < RsiOversold THEN <<[dir |-> 1, name |-> "RSI Oversold"]>>
    ELSE IF r.rsi.v > RsiOverbought THEN <<[dir |-> -1, name |-> "RSI Overbought"]>>
    ELSE <<>>

MacdRule(r) ==
    LET both == ~IsNone(r.macd) /\ ~IsNone(r.macd_sig)
        bull0 == both /\ r.macd.v > r.macd_sig.v
        bear0 == both /\ r.macd.v < r.macd_sig.v
        full == both /\ ~IsNone(r.macd_prev)
        prev_above == full /\ r.macd_prev.v > r.macd_sig.v
        curr_above == full /\ r.macd.v > r.macd_sig.v
        bull == IF full /\ ~prev_above /\ curr_above THEN TRUE
                ELSE IF full /\ prev_above /\ ~curr_above THEN FALSE
                ELSE bull0
        bear == IF full /\ ~prev_above /\ curr_above THEN FALSE
                ELSE IF full /\ prev_above /\ ~curr_above THEN TRUE
                ELSE bear0
    IN  IF bull THEN <<[dir |-> 1, name |-> "MACD Bullish Crossover"]>>
        ELSE IF bear THEN <<[dir |-> -1, name |-> "MACD Bearish Crossover"]>>
        ELSE <<>>

\* ratio = vol / avg_vol against 1.8 and 0.6, in tenths
VolSurgeRatio10 == 18
VolDumpRatio10 == 6

VolumeRule(r) ==
    IF IsNone(r.vol) \/ IsNone(r.avg_vol) \/ r.avg_vol.v = 0 \/ ~(r.avg_vol.v > 0)
    THEN <<>>
    ELSE IF 10 * r.vol.v >= VolSurgeRatio10 * r.avg_vol.v
         THEN <<[dir |-> 1, name |-> "Bullish Volume Surge"]>>
    ELSE IF 10 * r.vol.v <= VolDumpRatio10 * r.avg_vol.v
         THEN <<[dir |-> -1, name |-> "Bearish Volume Dump"]>>
    ELSE <<>>

Hits(r) == CrossRule(r) \o TrendRule(r) \o RsiRule(r) \o MacdRule(r) \o VolumeRule(r)

Names(hits) == [i \in 1..Len(hits) |-> hits[i].name]

Detected(hits) == IF Len(hits) = 0 THEN <<"Mixed/Range">> ELSE Names(hits)

\* v2.5.2 increments, in hundredths
BaselineIncrement(name) ==
    CASE name \in {"Golden Cross", "Death Cross"} -> 150
      [] name \in {"Strong Uptrend", "Strong Downtrend"} -> 50
      [] name \in {"RSI Oversold", "RSI Overbought"} -> 50
      [] name \in {"MACD Bullish Crossover", "MACD Bearish Crossover"} -> 30
      [] name \in {"Bullish Volume Surge", "Bearish Volume Dump"} -> 40

\* the weights taken over from the v2.5.2 increments
PATTERN_WEIGHTS_increments(name) == BaselineIncrement(name) \div 10

\* v0.3.0 PATTERN_WEIGHTS, in tenths
PATTERN_WEIGHTS(name) ==
    CASE name \in {"Golden Cross", "Death Cross"} -> 25
      [] name \in {"Strong Uptrend", "Strong Downtrend"} -> 18
      [] name \in {"Bullish Volume Surge", "Bearish Volume Dump"} -> 15
      [] name \in {"MACD Bullish Crossover", "MACD Bearish Crossover"} -> 13
      [] name \in {"RSI Oversold", "RSI Overbought"} -> 10

\* total weight W of the hits in direction dir
SumHits(hits, dir, W(_)) ==
    SumSeq([i \in 1..Len(hits) |-> IF hits[i].dir = dir THEN W(hits[i].name) ELSE 0])

\* math.tanh(x / 20) * 1e6 for x = 0..81, rounded to the nearest integer
TanhTable ==
    <<0, 49958, 99668, 148885, 197375, 244919, 291313, 336376, 379949,
      421899, 462117, 500520, 537050, 571670, 604368, 635149, 664037,
      691069, 716298, 739783, 761594, 781806, 800499, 817754, 833655,
      848284, 861723, 874053, 885352, 895693, 905148, 913785, 921669,
      928858, 935409, 941376, 946806, 951746, 956237, 960319, 964028,
      967395, 970452, 973226, 975743, 978026, 980096, 981973, 983675,
      985217, 986614, 987880, 989027, 990066, 991007, 991860, 992632,
      993330, 993963, 994536, 995055, 995524, 995949, 996334, 996682,
      996998, 997283, 997541, 997775, 997986, 998178, 998351, 998508,
      998650, 998778, 998894, 999000, 999095, 999181, 999259, 999329,
      999393>>

\* math.tanh(net * 0.5) in millionths, net in tenths
TanhHalf(net10) ==
    IF net10 >= 0 THEN TanhTable[net10 + 1] ELSE -TanhTable[-net10 + 1]

\* v2.5.2: score = 3.0 +/- increments, round(score, 2), clamp
BaselineScore(hits) ==
    Clamp(300 + SumHits(hits, 1, BaselineIncrement)
              - SumHits(hits, -1, BaselineIncrement))

\* v0.3.0: score = 3.0 + tanh((bullish - bearish) * 0.5) * 2.0, round, clamp
WeightedScore(hits) ==
    LET bullish_weight == SumHits(hits, 1, PATTERN_WEIGHTS)
        bearish_weight == SumHits(hits, -1, PATTERN_WEIGHTS)
        net_signal == bullish_weight - bearish_weight
        scaled_signal == TanhHalf(net_signal)
    IN  Clamp(RoundHalfEven(3000000 + scaled_signal * 2, 10000))

NeutralPattern == [score |-> 300, signal |-> "Neutral", detected |-> <<"Mixed/Range">>]

\* compute_pattern_score with the reads made before _derive_prev_mas
compute_pattern_score_stale(rev, t) ==
    IF ~t.is_dict THEN [result |-> NeutralPattern, tech |-> t]
    ELSE LET hits == Hits(Readings(t))
             score == IF rev = "v2.5.2" THEN BaselineScore(hits) ELSE WeightedScore(hits)
         IN  [result |-> [score |-> score, signal |-> _map_signal(score),
                          detected |-> Detected(hits)],
              tech |-> _derive_prev_mas(t)]

\* compute_pattern_score(tech): the returned triple and the dict as it is left
compute_pattern_score(rev, t) ==
    IF ~t.is_dict THEN [result |-> NeutralPattern, tech |-> t]
    ELSE LET t1 == _derive_prev_mas(t)
             hits == Hits(Readings(t1))
             score == IF rev = "v2.5.2" THEN BaselineScore(hits) ELSE WeightedScore(hits)
         IN  [result |-> [score |-> score, signal |-> _map_signal(score),
                          detected |-> Detected(hits)],
              tech |-> t1]

(***************************************************************************)
(* Scoring.  The scorers read the dicts raw (no safe_float): a value that  *)
(* is a string reaches a comparison with a number, which raises TypeError. *)
(* The input domains never put two strings into one comparison.            *)
(* Thresholds carry the names ScoringConfig gives them in v0.3.0; v2.5.2   *)
(* writes the same numbers as literals.                                    *)
(***************************************************************************)
IsStr(x) == x.k \in {"str", "empty", "nonestr", "bad"}

\* one metric's share of a scorer: w added to maxp, c added to points
Blk(weight, credit) == [w |-> weight, c |-> credit, raised |-> FALSE]
\* a missing metric still counted into maxp
SkipCounted == Blk(1, 0)

\* a missing metric: the "if x is not None" body is not run
Skip == Blk(0, 0)
RaiseBlk == [w |-> 0, c |-> 0, raised |-> TRUE]

MARKET_CAP_MEGA == 200
MARKET_CAP_LARGE == 10
MARKET_CAP_MID == 2
MARKET_CAP_RISK_SAFE == 100
PE_RATIO_OPTIMAL_MIN == 10
PE_RATIO_OPTIMAL_MAX == 25
PE_RATIO_ACCEPTABLE_MIN == 5
PE_RATIO_ACCEPTABLE_MAX == 35
RSI_NEUTRAL_MIN == 40
RSI_NEUTRAL_MAX == 60
RSI_MODERATE_LOW_MIN == 30
RSI_MODERATE_LOW_MAX == 40
RSI_MODERATE_HIGH_MIN == 60
RSI_MODERATE_HIGH_MAX == 70
RSI_SENTIMENT_NEUTRAL_MIN == 45
RSI_SENTIMENT_NEUTRAL_MAX == 55
RSI_SENTIMENT_MODERATE_LOW_MIN == 35
RSI_SENTIMENT_MODERATE_LOW_MAX == 45
RSI_SENTIMENT_MODERATE_HIGH_MIN == 55
RSI_SENTIMENT_MODERATE_HIGH_MAX == 65
\* 0.9, 1.2 and 1.0 in tenths
MACD_SIGNAL_CONVERGENCE == 9
VOLUME_SPIKE_RATIO == 12
VOLUME_POSITIVE_RATIO == 10
\* 0.10, 0.0 and 0.05 in thousandths
PRICE_CHANGE_STRONG == 100
PRICE_CHANGE_POSITIVE == 0
PRICE_CHANGE_STRONG_1M_SENTIMENT == 50
\* 0.5 and 1.0 in hundredths
DEBT_TO_EQUITY_IDEAL == 50
DEBT_TO_EQUITY_ACCEPTABLE == 100
REVENUE_SIGNIFICANT == 10
EPS_STRONG == 5
EPS_POSITIVE == 0
\* 2.0, 4.0, 6.0, 4.5 and 6.0 in tenths
FED_FUNDS_LOW == 20
FED_FUNDS_MODERATE == 40
FED_FUNDS_HIGH == 60
UNEMPLOYMENT_HEALTHY == 45
UNEMPLOYMENT_ACCEPTABLE == 60
CONSUMER_SENTIMENT_STRONG == 80
CONSUMER_SENTIMENT_MODERATE == 60
\* 0.02, 0.05 and 0.10 in thousandths
VOLATILITY_LOW == 20
VOLATILITY_MODERATE == 50
VOLATILITY_HIGH == 100
\* 0.8 and 1.2 in tenths
BETA_LOW == 8
BETA_MODERATE == 12

\* the score with 1.0 as the answer for a category without data
CategoryScore_floor(points, maxp) ==
    IF maxp = 0 THEN 100 ELSE RoundHalfEven(100 * maxp + 400 * points, maxp)

\* the score as the plain ratio scaled to 5
CategoryScore_ratio(points, maxp) ==
    IF maxp = 0 THEN 300 ELSE RoundHalfEven(500 * points, maxp)

\* if maxp == 0: return 3.0 / return round(1.0 + (points / maxp) * 4.0, 2)
CategoryScore(points, maxp) ==
    IF maxp = 0 THEN 300 ELSE RoundHalfEven(100 * maxp + 400 * points, maxp)

\* a scorer's blocks folded: the points, maxp and score it returns
Tally(blocks) ==
    LET maxp == SumSeq([i \in 1..Len(blocks) |-> blocks[i].w])
        points == SumSeq([i \in 1..Len(blocks) |-> blocks[i].c])
    IN  [raised |-> \E i \in 1..Len(blocks) : blocks[i].raised,
         points |-> points, maxp |-> maxp, score |-> CategoryScore(points, maxp)]

\* price vs MA50 vs MA200
TechTrendBlock(t) ==
    LET price == get(t, "current_price")
        ma50 == get(t, "ma_50")
        ma200 == get(t, "ma_200")
    IN  IF IsNone(price) \/ IsNone(ma50) \/ IsNone(ma200) THEN Skip
        ELSE IF IsStr(price) \/ IsStr(ma50) \/ IsStr(ma200) THEN RaiseBlk
        ELSE IF price.v > ma50.v /\ ma50.v > ma200.v THEN Blk(3, 3)
        ELSE IF price.v > ma50.v THEN Blk(3, 2)
        ELSE IF price.v > ma200.v THEN Blk(3, 1)
        ELSE Blk(3, 0)

TechRsiBlock(t) ==
    LET rsi == get(t, "rsi")
    IN  IF IsNone(rsi) THEN Skip
        ELSE IF IsStr(rsi) THEN RaiseBlk
        ELSE IF RSI_NEUTRAL_MIN <= rsi.v /\ rsi.v <= RSI_NEUTRAL_MAX THEN Blk(2, 2)
        ELSE IF \/ (RSI_MODERATE_LOW_MIN <= rsi.v /\ rsi.v < RSI_MODERATE_LOW_MAX)
                \/ (RSI_MODERATE_HIGH_MIN < rsi.v /\ rsi.v <= RSI_MODERATE_HIGH_MAX)
             THEN Blk(2, 1)
        ELSE Blk(2, 0)

\* the MACD metric with convergence measured as a gap of less than a tenth
\* of the signal's size
TechMacdBlock_gap(t) ==
    LET macd == get(t, "macd")
        sig == get(t, "macd_signal")
        size == IF sig.v < 0 THEN 0 - sig.v ELSE sig.v
    IN  IF IsNone(macd) \/ IsNone(sig) THEN Skip
        ELSE IF IsStr(macd) \/ IsStr(sig) THEN RaiseBlk
        ELSE IF macd.v > sig.v THEN Blk(2, 2)
        ELSE IF 10 * (sig.v - macd.v) < size THEN Blk(2, 1)
        ELSE Blk(2, 0)

TechMacdBlock(t) ==
    LET macd == get(t, "macd")
        sig == get(t, "macd_signal")
    IN  IF IsNone(macd) \/ IsNone(sig) THEN Skip
        ELSE IF IsStr(macd) \/ IsStr(sig) THEN RaiseBlk
        ELSE IF macd.v > sig.v THEN Blk(2, 2)
        ELSE IF 10 * macd.v > sig.v * MACD_SIGNAL_CONVERGENCE THEN Blk(2, 1)
        ELSE Blk(2, 0)

TechVolumeBlock(t) ==
    LET vol == get(t, "volume")
        avg == get(t, "avg_volume_20d")
    IN  IF IsNone(vol) \/ IsNone(avg) THEN Skip
        ELSE IF IsStr(vol) \/ IsStr(avg) THEN RaiseBlk
        ELSE IF 10 * vol.v > avg.v * VOLUME_SPIKE_RATIO THEN Blk(1, 1)
        ELSE Blk(1, 0)

TechChangeBlock(t) ==
    LET ch1m == get(t, "price_change_1m")
    IN  IF IsNone(ch1m) THEN Skip
        ELSE IF IsStr(ch1m) THEN RaiseBlk
        ELSE IF ch1m.v > PRICE_CHANGE_STRONG THEN Blk(2, 2)
        ELSE IF ch1m.v > PRICE_CHANGE_POSITIVE THEN Blk(2, 1)
        ELSE Blk(2, 0)

TechnicalBlocks(t) ==
    <<TechTrendBlock(t), TechRsiBlock(t), TechMacdBlock(t), TechVolumeBlock(t),
      TechChangeBlock(t)>>

_score_technical(t) == Tally(TechnicalBlocks(t))

FundMarketCapBlock(f) ==
    LET mcap == get(f, "market_cap")
    IN  IF IsNone(mcap) THEN Skip
        ELSE IF IsStr(mcap) THEN RaiseBlk
        ELSE IF mcap.v > MARKET_CAP_MEGA THEN Blk(3, 3)
        ELSE IF mcap.v > MARKET_CAP_LARGE THEN Blk(3, 2)
        ELSE IF mcap.v > MARKET_CAP_MID THEN Blk(3, 1)
        ELSE Blk(3, 0)

FundPeBlock(f) ==
    LET pe == get(f, "pe_ratio")
    IN  IF IsNone(pe) THEN Skip
        ELSE IF IsStr(pe) THEN RaiseBlk
        ELSE IF PE_RATIO_OPTIMAL_MIN <= pe.v /\ pe.v <= PE_RATIO_OPTIMAL_MAX THEN Blk(2, 2)
        ELSE IF \/ (PE_RATIO_ACCEPTABLE_MIN <= pe.v /\ pe.v < PE_RATIO_OPTIMAL_MIN)
                \/ (PE_RATIO_OPTIMAL_MAX < pe.v /\ pe.v <= PE_RATIO_ACCEPTABLE_MAX)
             THEN Blk(2, 1)
        ELSE Blk(2, 0)

FundDebtBlock(f) ==
    LET de == get(f, "debt_to_equity")
    IN  IF IsNone(de) THEN Skip
        ELSE IF IsStr(de) THEN RaiseBlk
        ELSE IF de.v < DEBT_TO_EQUITY_IDEAL THEN Blk(2, 2)
        ELSE IF de.v < DEBT_TO_EQUITY_ACCEPTABLE THEN Blk(2, 1)
        ELSE Blk(2, 0)

FundRevenueBlock(f) ==
    LET rev == get(f, "revenue_ttm")
    IN  IF IsNone(rev) THEN Skip
        ELSE IF IsStr(rev) THEN RaiseBlk
        ELSE IF rev.v > REVENUE_SIGNIFICANT THEN Blk(1, 1)
        ELSE Blk(1, 0)

FundEpsBlock(f) ==
    LET eps == get(f, "eps")
    IN  IF IsNone(eps) THEN Skip
        ELSE IF IsStr(eps) THEN RaiseBlk
        ELSE IF eps.v > EPS_STRONG THEN Blk(2, 2)
        ELSE IF eps.v > EPS_POSITIVE THEN Blk(2, 1)
        ELSE Blk(2, 0)

FundamentalBlocks(f) ==
    <<FundMarketCapBlock(f), FundPeBlock(f), FundDebtBlock(f), FundRevenueBlock(f),
      FundEpsBlock(f)>>

_score_fundamental(f) == Tally(FundamentalBlocks(f))

MacroRateBlock(m) ==
    LET rate == get(m, "fed_funds_rate")
    IN  IF IsNone(rate) THEN Skip
        ELSE IF IsStr(rate) THEN RaiseBlk
        ELSE IF rate.v < FED_FUNDS_LOW THEN Blk(3, 3)
        ELSE IF rate.v < FED_FUNDS_MODERATE THEN Blk(3, 2)
        ELSE IF rate.v < FED_FUNDS_HIGH THEN Blk(3, 1)
        ELSE Blk(3, 0)

MacroUnemploymentBlock(m) ==
    LET un == get(m, "unemployment")
    IN  IF IsNone(un) THEN Skip
        ELSE IF IsStr(un) THEN RaiseBlk
        ELSE IF un.v < UNEMPLOYMENT_HEALTHY THEN Blk(2, 2)
        ELSE IF un.v < UNEMPLOYMENT_ACCEPTABLE THEN Blk(2, 1)
        ELSE Blk(2, 0)

MacroSentimentBlock(m) ==
    LET cs == get(m, "consumer_sentiment")
    IN  IF IsNone(cs) THEN Skip
        ELSE IF IsStr(cs) THEN RaiseBlk
        ELSE IF cs.v > CONSUMER_SENTIMENT_STRONG THEN Blk(2, 2)
        ELSE IF cs.v > CONSUMER_SENTIMENT_MODERATE THEN Blk(2, 1)
        ELSE Blk(2, 0)

MacroBlocks(m) == <<MacroRateBlock(m), MacroUnemploymentBlock(m), MacroSentimentBlock(m)>>

_score_macro(m) == Tally(MacroBlocks(m))

RiskVolatilityBlock(t) ==
    LET vol == get(t, "volatility_30d")
    IN  IF IsNone(vol) THEN Skip
        ELSE IF IsStr(vol) THEN RaiseBlk
        ELSE IF vol.v < VOLATILITY_LOW THEN Blk(3, 3)
        ELSE IF vol.v < VOLATILITY_MODERATE THEN Blk(3, 2)
        ELSE IF vol.v < VOLATILITY_HIGH THEN Blk(3, 1)
        ELSE Blk(3, 0)

RiskMarketCapBlock(f) ==
    LET mcap == get(f, "market_cap")
    IN  IF IsNone(mcap) THEN Skip
        ELSE IF IsStr(mcap) THEN RaiseBlk
        ELSE IF mcap.v > MARKET_CAP_RISK_SAFE THEN Blk(2, 2)
        ELSE IF mcap.v > MARKET_CAP_LARGE THEN Blk(2, 1)
        ELSE Blk(2, 0)

RiskBetaBlock(f) ==
    LET beta == get(f, "beta")
    IN  IF IsNone(beta) THEN Skip
        ELSE IF IsStr(beta) THEN RaiseBlk
        ELSE IF beta.v < BETA_LOW THEN Blk(2, 2)
        ELSE IF beta.v < BETA_MODERATE THEN Blk(2, 1)
        ELSE Blk(2, 0)

RiskBlocks(t, f) == <<RiskVolatilityBlock(t), RiskMarketCapBlock(f), RiskBetaBlock(f)>>

_score_risk(t, f) == Tally(RiskBlocks(t, f))

SentRsiBlock(t) ==
    LET rsi == get(t, "rsi")
    IN  IF IsNone(rsi) THEN Skip
        ELSE IF IsStr(rsi) THEN RaiseBlk
        ELSE IF RSI_SENTIMENT_NEUTRAL_MIN <= rsi.v /\ rsi.v <= RSI_SENTIMENT_NEUTRAL_MAX
             THEN Blk(2, 2)
        ELSE IF \/ (RSI_SENTIMENT_MODERATE_LOW_MIN <= rsi.v
                    /\ rsi.v < RSI_SENTIMENT_MODERATE_LOW_MAX)
                \/ (RSI_SENTIMENT_MODERATE_HIGH_MIN < rsi.v
                    /\ rsi.v <= RSI_SENTIMENT_MODERATE_HIGH_MAX)
             THEN Blk(2, 1)
        ELSE Blk(2, 0)

SentVolumeBlock(t) ==
    LET vol == get(t, "volume")
        avg == get(t, "avg_volume_20d")
    IN  IF IsNone(vol) \/ IsNone(avg) THEN Skip
        ELSE IF IsStr(vol) \/ IsStr(avg) THEN RaiseBlk
        ELSE IF 10 * vol.v > avg.v * VOLUME_POSITIVE_RATIO THEN Blk(1, 1)
        ELSE Blk(1, 0)

SentChangeBlock(t) ==
    LET ch1m == get(t, "price_change_1m")
    IN  IF IsNone(ch1m) THEN Skip
        ELSE IF IsStr(ch1m) THEN RaiseBlk
        ELSE IF ch1m.v > PRICE_CHANGE_STRONG_1M_SENTIMENT THEN Blk(2, 2)
        ELSE IF ch1m.v > PRICE_CHANGE_POSITIVE THEN Blk(2, 1)
        ELSE Blk(2, 0)

SentimentBlocks(t) == <<SentRsiBlock(t), SentVolumeBlock(t), SentChangeBlock(t)>>

_score_sentiment(t) == Tally(SentimentBlocks(t))

\* _recommend with the bands open at their lower bounds
_recommend_open(score) ==
    IF score > 400 THEN "Strong Buy"
    ELSE IF score > 350 THEN "Buy"
    ELSE IF score > 300 THEN "Moderate Buy"
    ELSE IF score > 250 THEN "Hold"
    ELSE IF score > 200 THEN "Moderate Sell"
    ELSE IF score > 150 THEN "Sell"
    ELSE "Strong Sell"

_recommend(score) ==
    IF score >= 400 THEN "Strong Buy"
    ELSE IF score >= 350 THEN "Buy"
    ELSE IF score >= 300 THEN "Moderate Buy"
    ELSE IF score >= 250 THEN "Hold"
    ELSE IF score >= 200 THEN "Moderate Sell"
    ELSE IF score >= 150 THEN "Sell"
    ELSE "Strong Sell"

\* self.weights, in hundredths, in the order the dict holds them
WeightKeys == <<"technical", "fundamental", "macro", "risk">>

\* the weights of technical and fundamental exchanged
weights_swapped ==
    [technical |-> 35, fundamental |-> 30, macro |-> 20, risk |-> 15]

weights ==
    [technical |-> 30, fundamental |-> 35, macro |-> 20, risk |-> 15]

(***************************************************************************)
(* round(comp, 2) of the float sum comp.  Where the exact sum lies halfway *)
(* between two hundredths, the side the float lands on depends on its      *)
(* binary representation error; tieUp says which side it is.               *)
(***************************************************************************)
RoundFloat(n, d, tieUp) ==
    LET q == n \div d
        r == n % d
    IN  IF 2 * r > d \/ (2 * r = d /\ tieUp) THEN q + 1 ELSE q

\* comp = sum of v * w over self.weights, in 1/10000
WeightedSum(scores) ==
    SumSeq([i \in 1..Len(WeightKeys) |-> scores[WeightKeys[i]] * weights[WeightKeys[i]]])

NoScores ==
    [status |-> "none", technical |-> 0, fundamental |-> 0, macro |-> 0, risk |-> 0,
     sentiment |-> 0, composite |-> 0, recommendation |-> ""]

\* calculate_scores(data): the scores dict, or status "raised" when a scorer raises
calculate_scores(d, tieUp) ==
    LET t == _score_technical(d.technical)
        f == _score_fundamental(d.fundamental)
        m == _score_macro(d.macro)
        r == _score_risk(d.technical, d.fundamental)
        s == _score_sentiment(d.technical)
        scores == [technical |-> t.score, fundamental |-> f.score, macro |-> m.score,
                   risk |-> r.score, sentiment |-> s.score]
        composite == RoundFloat(WeightedSum(scores), 100, tieUp)
    IN  IF t.raised \/ f.raised \/ m.raised \/ r.raised \/ s.raised
        THEN [NoScores EXCEPT !.status = "raised"]
        ELSE [status |-> "ok", technical |-> t.score, fundamental |-> f.score,
              macro |-> m.score, risk |-> r.score, sentiment |-> s.score,
              composite |-> composite, recommendation |-> _recommend(composite)]

(***************************************************************************)
(* PatternBacktester (v0.3.0).  Moves are fractions: expected moves in     *)
(* 1/10000 (0.05 is 500), a realized move as num/den with den the pattern  *)
(* price.  Reported percentages are in hundredths of a percent, accuracy   *)
(* in tenths.  A bar is the value under its "c" key; closes are positive.  *)
(* A day of 0 stands for None.                                             *)
(***************************************************************************)
\* lookback_days: int = 30
DefaultLookback == 30

_get_pattern_direction(pattern_score) ==
    IF pattern_score >= 350 THEN "bullish"
    ELSE IF pattern_score <= 250 THEN "bearish"
    ELSE "neutral"

high_conviction ==
    {"Golden Cross", "Death Cross", "Bullish Volume Surge", "Bearish Volume Dump"}

_get_expected_move(pattern_score, detected_patterns) ==
    LET base_move == IF pattern_score >= 450 THEN 1000
                     ELSE IF pattern_score >= 400 THEN 700
                     ELSE IF pattern_score >= 350 THEN 500
                     ELSE IF pattern_score <= 200 THEN -1000
                     ELSE IF pattern_score <= 250 THEN -700
                     ELSE 200
    IN  IF ~detected_patterns.is_list THEN base_move
        ELSE IF \E i \in 1..Len(detected_patterns.items) :
                    detected_patterns.items[i] \in high_conviction
             THEN (base_move * 13) \div 10
        ELSE base_move

\* the test of one bar inside the loop; threshold = abs(expected_move) * 0.5
IsBreakout(direction, close, pattern_price, expected_move) ==
    LET diff == close - pattern_price
    IN  CASE direction = "bullish" ->
                2 * 10000 * diff >= Abs(expected_move) * pattern_price
          [] direction = "bearish" ->
                2 * 10000 * diff <= -Abs(expected_move) * pattern_price
          [] direction = "neutral" -> 100 * Abs(diff) <= 3 * pattern_price
          [] OTHER -> FALSE

\* the scan starting at the bar before the reference bar: range(2, len(bars))
_find_breakout_day_skipfirst(bars, pattern_price, expected_move, direction) ==
    LET n == Len(bars)
        close(i) == safe_float(get(bars, n + 1 - i), PyNone)
        days == {i \in 2..(n - 1) :
                    /\ ~IsNone(close(i))
                    /\ IsBreakout(direction, close(i).v, pattern_price, expected_move)}
    IN  IF n < 2 THEN [day |-> 0, num |-> 0, den |-> 1]
        ELSE IF days # {}
             THEN LET i == CHOOSE d \in days : \A e \in days : d <= e
                      diff == close(i).v - pattern_price
                  IN  [day |-> i,
                       num |-> IF direction = "bearish" THEN Abs(diff) ELSE diff,
                       den |-> pattern_price]
        ELSE LET final_close == safe_float(get(bars, n), PyNone)
             IN  [day |-> 0,
                  num |-> IF IsNone(final_close) THEN 0 ELSE final_close.v - pattern_price,
                  den |-> pattern_price]

\* for i in range(1, len(bars)): bars[-i] is bars[n + 1 - i] counted from 1
_find_breakout_day(bars, pattern_price, expected_move, direction) ==
    LET n == Len(bars)
        close(i) == safe_float(get(bars, n + 1 - i), PyNone)
        days == {i \in 1..(n - 1) :
                    /\ ~IsNone(close(i))
                    /\ IsBreakout(direction, close(i).v, pattern_price, expected_move)}
    IN  IF n < 2 THEN [day |-> 0, num |-> 0, den |-> 1]
        ELSE IF days # {}
             THEN LET i == CHOOSE d \in days : \A e \in days : d <= e
                      diff == close(i).v - pattern_price
                  IN  [day |-> i,
                       num |-> IF direction = "bearish" THEN Abs(diff) ELSE diff,
                       den |-> pattern_price]
        ELSE LET final_close == safe_float(get(bars, n), PyNone)
             IN  [day |-> 0,
                  num |-> IF IsNone(final_close) THEN 0 ELSE final_close.v - pattern_price,
                  den |-> pattern_price]

\* _evaluate_pattern_success counting a move of zero as the predicted direction
_evaluate_pattern_success_nonstrict(direction, actual_move, expected_move) ==
    IF direction = "neutral" THEN 100 * Abs(actual_move.num) <= 3 * actual_move.den
    ELSE IF direction = "bullish" THEN actual_move.num >= 0
    ELSE actual_move.num <= 0

_evaluate_pattern_success(direction, actual_move, expected_move) ==
    IF direction = "neutral" THEN 100 * Abs(actual_move.num) <= 3 * actual_move.den
    ELSE IF direction = "bullish" THEN actual_move.num > 0
    ELSE actual_move.num < 0

\* _calculate_accuracy without the 50 base points of a correct direction
_calculate_accuracy_nobase(prediction_correct, actual_move, expected_move, direction) ==
    LET D == actual_move.den * Abs(expected_move)
        N == Abs(actual_move.num * 10000 - expected_move * actual_move.den)
    IN  IF ~prediction_correct
        THEN IF expected_move # 0 THEN [num |-> Max(0, 25 * D - 25 * N), den |-> D]
             ELSE [num |-> 0, den |-> 1]
        ELSE IF expected_move # 0
             THEN [num |-> Min(100 * D, Max(0, 50 * (D - Min(D, N)))), den |-> D]
        ELSE LET d == actual_move.den
                 a == 20 * Abs(actual_move.num)
             IN  [num |-> Min(100 * d, Max(0, 50 * (d - Min(d, a)))), den |-> d]

\* the accuracy as the fraction num/den, before round(accuracy, 1)
_calculate_accuracy(prediction_correct, actual_move, expected_move, direction) ==
    LET D == actual_move.den * Abs(expected_move)
        N == Abs(actual_move.num * 10000 - expected_move * actual_move.den)
    IN  IF ~prediction_correct
        THEN IF expected_move # 0 THEN [num |-> Max(0, 25 * D - 25 * N), den |-> D]
             ELSE [num |-> 0, den |-> 1]
        ELSE IF expected_move # 0
             THEN [num |-> Min(100 * D, Max(0, 50 * D + 50 * (D - Min(D, N)))),
                   den |-> D]
        ELSE LET d == actual_move.den
                 a == 20 * Abs(actual_move.num)
             IN  [num |-> Min(100 * d, Max(0, 50 * d + 50 * (d - Min(d, a)))),
                  den |-> d]

\* _determine_confidence asking "Medium" for good accuracy and reasonable timing
_determine_confidence_and(accuracy, breakout_day, lookback_days) ==
    IF /\ accuracy.num >= 80 * accuracy.den
       /\ breakout_day # 0 /\ 10 * breakout_day <= 3 * lookback_days
    THEN "High"
    ELSE IF /\ accuracy.num >= 60 * accuracy.den
            /\ (breakout_day # 0 /\ 10 * breakout_day <= 5 * lookback_days)
         THEN "Medium"
    ELSE "Low"

_determine_confidence(accuracy, breakout_day, lookback_days) ==
    IF /\ accuracy.num >= 80 * accuracy.den
       /\ breakout_day # 0 /\ 10 * breakout_day <= 3 * lookback_days
    THEN "High"
    ELSE IF \/ accuracy.num >= 60 * accuracy.den
            \/ (breakout_day # 0 /\ 10 * breakout_day <= 5 * lookback_days)
         THEN "Medium"
    ELSE "Low"

_no_data_result ==
    [accuracy |-> 0, expected_move |-> 0, actual_move |-> 0, days_to_breakout |-> 0,
     prediction_correct |-> FALSE, confidence |-> "Low", direction |-> "unknown"]

\* call: [pattern_score, detected_patterns, lookback_days, aggs]; aggs is what
\* polygon.get_aggregates returned: ok is FALSE for None or a dict without "results"
backtest_pattern(call) ==
    LET direction == _get_pattern_direction(call.pattern_score)
        expected_move == _get_expected_move(call.pattern_score, call.detected_patterns)
        bars == call.aggs.results
    IN  IF ~call.aggs.ok \/ Len(bars) < call.lookback_days THEN _no_data_result
        ELSE IF Len(bars) < 2 THEN _no_data_result
        ELSE LET pattern_price == safe_float(get(bars, Len(bars)), PyNone)
             IN  IF IsNone(pattern_price) THEN _no_data_result
                 ELSE LET found == _find_breakout_day(bars, pattern_price.v,
                                                      expected_move, direction)
                          actual_move == [num |-> found.num, den |-> found.den]
                          prediction_correct ==
                              _evaluate_pattern_success(direction, actual_move,
                                                        expected_move)
                          accuracy == _calculate_accuracy(prediction_correct, actual_move,
                                                          expected_move, direction)
                      IN  [accuracy |-> RoundHalfEven(10 * accuracy.num, accuracy.den),
                           expected_move |-> expected_move,
                           actual_move |-> RoundHalfEven(10000 * actual_move.num,
                                                         actual_move.den),
                           days_to_breakout |-> IF found.day # 0 THEN found.day
                                                ELSE call.lookback_days,
                           prediction_correct |-> prediction_correct,
                           confidence |-> _determine_confidence(accuracy, found.day,
                                                                call.lookback_days),
                           direction |-> direction]

(***************************************************************************)
(* StockComparator (v0.3.0).  market[ticker] is what collect_all_data      *)
(* yields for the ticker: ok FALSE when it raises, else the three dicts    *)
(* (and the side float rounding lands that ticker's composite on).         *)
(* A dict is a sequence of entries in insertion order; "" stands for None. *)
(***************************************************************************)
\* the elements of s at the indices in I, in order
SubSeqAt(s, I) ==
    [p \in 1..Cardinality(I) |->
        s[CHOOSE i \in I : Cardinality({j \in I : j < i}) = p - 1]]

\* sorted(entries, key=lambda x: x[1]) without reverse
sorted_asc(entries) ==
    LET n == Len(entries)
        Pos(i) == 1 + Cardinality({j \in 1..n :
                        \/ entries[j].k < entries[i].k
                        \/ (entries[j].k = entries[i].k /\ j < i)})
    IN  [p \in 1..n |-> entries[CHOOSE i \in 1..n : Pos(i) = p]]

\* sorted(entries, key=lambda x: x[1], reverse=True): stable, ties keep their order
sorted_desc(entries) ==
    LET n == Len(entries)
        Pos(i) == 1 + Cardinality({j \in 1..n :
                        \/ entries[j].k > entries[i].k
                        \/ (entries[j].k = entries[i].k /\ j < i)})
    IN  [p \in 1..n |-> entries[CHOOSE i \in 1..n : Pos(i) = p]]

_extract_key_metrics(data, scores) ==
    [price |-> safe_float(get(data.technical, "current_price"), PyNone),
     market_cap |-> safe_float(get(data.fundamental, "market_cap"), PyNone),
     pe_ratio |-> safe_float(get(data.fundamental, "pe_ratio"), PyNone),
     price_change_1m |-> safe_float(get(data.technical, "price_change_1m"), Num(0)),
     volatility |-> safe_float(get(data.technical, "volatility_30d"), PyNone),
     beta |-> safe_float(get(data.fundamental, "beta"), PyNone),
     debt_to_equity |-> safe_float(get(data.fundamental, "debt_to_equity"), PyNone),
     rsi |-> safe_float(get(data.technical, "rsi"), PyNone),
     composite |-> scores.composite, technical |-> scores.technical,
     fundamental |-> scores.fundamental, risk |-> scores.risk]

\* the body of the loop with the try around the collection only: an exception
\* of the scorer is not caught
Analyse_unguarded(rev, ticker, m) ==
    LET data == Data(m.technical, m.fundamental, m.macro)
        scores == calculate_scores(data, m.tieUp)
    IN  [ok |-> m.ok, ticker |-> ticker, scores |-> scores,
         metrics |-> _extract_key_metrics(data, scores),
         pattern_signal |-> ""]

\* the body of the loop for one ticker: the analyses entry, or ok FALSE when
\* the except clause skips the ticker
Analyse(rev, ticker, m) ==
    LET failed == [ok |-> FALSE, ticker |-> ticker, scores |-> NoScores,
                   metrics |-> _extract_key_metrics(Data(EmptyTech, EmptyFund, EmptyMacro),
                                                    NoScores),
                   pattern_signal |-> ""]
    IN  IF ~m.ok THEN failed
        ELSE LET has_tech == m.technical # EmptyTech
                 pat == compute_pattern_score(rev, m.technical)
                 tech1 == IF has_tech THEN pat.tech ELSE m.technical
                 data == Data(tech1, m.fundamental, m.macro)
                 scores == calculate_scores(data, m.tieUp)
             IN  IF scores.status = "raised" THEN failed
                 ELSE [ok |-> TRUE, ticker |-> ticker, scores |-> scores,
                       metrics |-> _extract_key_metrics(data, scores),
                       pattern_signal |-> IF has_tech THEN pat.result.signal ELSE ""]

\* the P/E itself as the value score
ValueScore_pe(pe) == pe

\* 100.0 / pe in thousandths
ValueScore(pe) == 100000 \div pe

_calculate_rankings(analyses) ==
    LET n == Len(analyses)
        entry(i, key) == [t |-> analyses[i].ticker, k |-> key]
        has_pe == {i \in 1..n : /\ ~IsNone(analyses[i].metrics.pe_ratio)
                                /\ analyses[i].metrics.pe_ratio.v > 0}
    IN  [overall |-> sorted_desc([i \in 1..n |-> entry(i, analyses[i].scores.composite)]),
         value |-> sorted_desc(SubSeqAt(
                      [i \in 1..n |->
                          entry(i, IF i \in has_pe
                                   THEN ValueScore(analyses[i].metrics.pe_ratio.v)
                                   ELSE 0)],
                      has_pe)),
         momentum |-> sorted_desc([i \in 1..n |->
                          entry(i, analyses[i].metrics.price_change_1m.v)]),
         safety |-> sorted_desc([i \in 1..n |-> entry(i, analyses[i].scores.risk)]),
         fundamentals |-> sorted_desc([i \in 1..n |->
                              entry(i, analyses[i].scores.fundamental)])]

_generate_recommendation(analyses, rankings) ==
    LET buy_now == rankings.overall[1].t
        best_value == IF Len(rankings.value) > 0 THEN rankings.value[1].t ELSE ""
        best_momentum == rankings.momentum[1].t
        safest == rankings.safety[1].t
        buy_analysis == analyses[CHOOSE i \in 1..Len(analyses) :
                                    analyses[i].ticker = buy_now]
    IN  [buy_now |-> buy_now, best_value |-> best_value,
         best_momentum |-> best_momentum, safest |-> safest,
         rationale |->
            <<"ranks #1 overall">>
            \o (IF buy_now = best_value THEN <<"best value">> ELSE <<>>)
            \o (IF buy_now = best_momentum THEN <<"strongest momentum">> ELSE <<>>)
            \o (IF buy_now = safest THEN <<"safest">> ELSE <<>>)
            \o (IF buy_analysis.pattern_signal # "" THEN <<"pattern signal">> ELSE <<>>)]

NoComparison ==
    [status |-> "none", tickers |-> <<>>, analyses |-> <<>>,
     rankings |-> [overall |-> <<>>, value |-> <<>>, momentum |-> <<>>,
                   safety |-> <<>>, fundamentals |-> <<>>],
     recommendation |-> [buy_now |-> "", best_value |-> "", best_momentum |-> "",
                         safest |-> "", rationale |-> <<>>]]

\* the for loop over tickers: the analyses dict as the sequence of its entries,
\* one per ticker, at the place of the ticker's first success
CollectAnalyses(rev, tickers, mkt) ==
    CHOOSE analyses \in
        {SubSeqAt(all, {i \in 1..Len(all) :
                          /\ all[i].ok
                          /\ \A j \in 1..(i - 1) : tickers[j] # tickers[i]}) \o <<>> :
            all \in {[i \in 1..Len(tickers) |->
                        Analyse(rev, tickers[i], mkt[tickers[i]])] \o <<>>}} : TRUE

\* what compare_stocks does with the analyses it collected; an exception that
\* left the loop body uncaught ends the call (status "raised")
Compared(analyses) ==
    IF \E i \in 1..Len(analyses) : analyses[i].scores.status = "raised"
    THEN [NoComparison EXCEPT !.status = "raised"]
    ELSE IF Len(analyses) < 2 THEN [NoComparison EXCEPT !.status = "error"]
    ELSE LET rankings == _calculate_rankings(analyses)
         IN  [status |-> "ok",
              tickers |-> [i \in 1..Len(analyses) |-> analyses[i].ticker],
              analyses |-> analyses,
              rankings |-> rankings,
              recommendation |-> _generate_recommendation(analyses, rankings)]

compare_stocks(rev, tickers, mkt) ==
    CHOOSE result \in {Compared(analyses) :
                          analyses \in {CollectAnalyses(rev, tickers, mkt)}} : TRUE

(***************************************************************************)
(* NotionClient, polling workflow (v0.3.0).  A request to Notion ends in   *)
(* one of three ways: "ok" (status 200, or 201 for a created page), "fail" *)
(* (another status code) or "raise" (requests raises, or the reply cannot  *)
(* be read as expected).  Times are in seconds.  A block is its type.      *)
(***************************************************************************)
RequestOutcomes == {"ok", "fail", "raise"}

poll_interval == 10

\* requests.get(url, headers=self.headers, timeout=10) of a poll
PollRequestTimeout == 10

\* _upsert_analyses in the polling workflow: the page id (TRUE) or None, and the
\* Content Status the page has afterwards
_upsert_analyses(status, outcome) ==
    IF outcome = "ok" THEN [page_id |-> TRUE, status |-> "Pending Analysis"]
    ELSE [page_id |-> FALSE, status |-> status]

\* while datetime.now() < end_time, end_time being start_time + timeout
LoopRuns(now, timeout) == now < timeout

\* one pass of the loop body: the GET, the test of Content Status, the sleep
PollOnce(status, now, outcome, latency) ==
    IF outcome = "ok" /\ status = "Send to History"
    THEN [returned |-> TRUE, now |-> now + latency]
    ELSE [returned |-> FALSE, now |-> now + latency + poll_interval]

\* the timeout branch returning True
TimeoutReached_ready(status, patch) ==
    [ready |-> "True", status |-> status]

\* after the loop: PATCH "Analysis Incomplete", return False
TimeoutReached(status, patch) ==
    [ready |-> "False",
     status |-> IF patch = "ok" THEN "Analysis Incomplete" ELSE status]

\* every block copied, synced blocks included
BlocksToCopy_all(blocks) == blocks

\* blocks_to_copy: the blocks of the page without the synced blocks
BlocksToCopy(blocks) == SelectSeq(blocks, LAMBDA b : b # "synced_block")

NoRequests == [read |-> "none", create |-> "none", append |-> "none", update |-> "none"]

(***************************************************************************)
(* archive_to_history(page_id).  req names how its requests end: read (the *)
(* two GETs and the Ticker and Analysis Date they must hold), create (the  *)
(* POST of the Stock History page), append (the PATCH of the copied        *)
(* blocks, made only when there are some) and update (the PATCH of the     *)
(* Stock Analyses page).  Any exception ends the call with None.           *)
(***************************************************************************)
\* archive_to_history marking the Stock Analyses page before the history page
\* is created
archive_to_history_eager(status, blocks, history, req) ==
    LET to_copy == BlocksToCopy(blocks)
        appended == to_copy = <<>> \/ req.append = "ok"
        page == [status |-> "Historical", blocks |-> IF appended THEN to_copy ELSE <<>>]
    IN  IF req.read # "ok" THEN [status |-> status, history |-> history, id |-> 0]
        ELSE IF req.create # "ok"
        THEN [status |-> "Logged in History", history |-> history, id |-> 0]
        ELSE [status |-> "Logged in History", history |-> Append(history, page),
              id |-> Len(history) + 1]

archive_to_history(status, blocks, history, req) ==
    LET unchanged == [status |-> status, history |-> history, id |-> 0]
        to_copy == BlocksToCopy(blocks)
        id == Len(history) + 1
        empty_page == [status |-> "Historical", blocks |-> <<>>]
        full_page == [status |-> "Historical", blocks |-> to_copy]
        appended == to_copy = <<>> \/ req.append = "ok"
        page == IF appended THEN full_page ELSE empty_page
    IN  IF req.read # "ok" \/ req.create # "ok" THEN unchanged
        ELSE IF to_copy # <<>> /\ req.append = "raise"
        THEN [status |-> status, history |-> Append(history, empty_page), id |-> 0]
        ELSE IF req.update = "raise"
        THEN [status |-> status, history |-> Append(history, page), id |-> 0]
        ELSE [status |-> IF req.update = "ok" THEN "Logged in History" ELSE status,
              history |-> Append(history, page), id |-> id]

(***************************************************************************)
(* NotionClient._build_properties: the data-quality part and the metric    *)
(* properties.  The twenty fields counted into "available", in the order   *)
(* of the sum, twelve read from tech and eight from fund.                  *)
(***************************************************************************)
TechCounted ==
    <<"current_price", "ma_50", "ma_200", "rsi", "macd", "macd_signal", "volume",
      "avg_volume_20d", "volatility_30d", "price_change_1d", "price_change_5d",
      "price_change_1m">>

FundCounted ==
    <<"market_cap", "pe_ratio", "eps", "revenue_ttm", "debt_to_equity", "beta",
      "52_week_high", "52_week_low">>

total_fields == 28

\* the truth value of x counting every value but None as true
Truthy_notnone(x) == ~IsNone(x)

\* the truth value Python gives x in "1 if x else 0"
Truthy(x) ==
    CASE x.k = "none" -> FALSE
      [] x.k = "num" -> x.v # 0
      [] x.k = "empty" -> FALSE
      [] OTHER -> TRUE

\* float(x) raises for a string that is not a number
FloatRaises(x) == x.k \in {"empty", "nonestr", "bad"}

available(tech_, fund_) ==
    Cardinality({i \in 1..Len(TechCounted) : Truthy(get(tech_, TechCounted[i]))})
    + Cardinality({i \in 1..Len(FundCounted) :
          IF FundCounted[i] = "debt_to_equity"
          THEN ~IsNone(get(fund_, FundCounted[i]))
          ELSE Truthy(get(fund_, FundCounted[i]))})

\* completeness >= percent / 100 with completeness = available / total_fields
AtLeast(avail, percent) == 100 * avail >= percent * total_fields

DataQualityGrade(avail) ==
    IF AtLeast(avail, 90) THEN "A - Excellent"
    ELSE IF AtLeast(avail, 75) THEN "B - Good"
    ELSE IF AtLeast(avail, 60) THEN "C - Fair"
    ELSE "D - Poor"

DataConfidence(avail) ==
    IF AtLeast(avail, 85) THEN "High"
    ELSE IF AtLeast(avail, 70) THEN "Medium-High"
    ELSE IF AtLeast(avail, 55) THEN "Medium"
    ELSE "Low"

NoProps ==
    [status |-> "none", Confidence |-> "", Grade |-> "", Completeness |-> 0,
     numbers |-> {}]

\* the properties, or status "raised" when a float(...) of a metric raises or
\* the volume change divides by an average volume of "0"
_build_properties(data) ==
    LET tech_ == data.technical
        fund_ == data.fundamental
        avail == available(tech_, fund_)
        written ==
            {TechCounted[i] : i \in {j \in 1..Len(TechCounted) :
                                        ~IsNone(get(tech_, TechCounted[j]))}}
            \cup {FundCounted[i] : i \in {j \in 1..Len(FundCounted) :
                                        ~IsNone(get(fund_, FundCounted[j]))}}
        volume == get(tech_, "volume")
        avg == get(tech_, "avg_volume_20d")
    IN  IF \/ \E i \in 1..Len(TechCounted) : FloatRaises(get(tech_, TechCounted[i]))
           \/ \E i \in 1..Len(FundCounted) : FloatRaises(get(fund_, FundCounted[i]))
           \/ (~IsNone(volume) /\ avg = Str(0))
        THEN [NoProps EXCEPT !.status = "raised"]
        ELSE [status |-> "ok",
              Confidence |-> DataConfidence(avail),
              Grade |-> DataQualityGrade(avail),
              Completeness |-> RoundHalfEven(100 * avail, total_fields),
              numbers |-> written]

(***************************************************************************)
(* Inputs of the pattern detector.  Price levels are multiples of 200      *)
(* ticks, so the means over 50 and over 200 closes are whole ticks.        *)
(***************************************************************************)
Low == 20000
Mid == 21000
High == 22000

Run(x, count) == [c |-> x, n |-> count]

\* 200 closes: one short of what _derive_prev_mas needs
ClosesShort == <<Run(Mid, 200)>>
\* derived prev_ma_50 = 20000 <= derived prev_ma_200 = 21500
ClosesBelow == <<Run(High, 150), Run(Low, 50), Run(High, 1)>>
\* derived prev_ma_50 = 22000 > derived prev_ma_200 = 20500
ClosesAbove == <<Run(Low, 150), Run(High, 50), Run(Low, 1)>>
\* a non-numeric close in the older part: the 50-mean works, the 200-mean raises
ClosesBadOld == <<Run(BadClose, 1), Run(High, 149), Run(Low, 50), Run(High, 1)>>

\* <<prev_ma_50, prev_ma_200, daily_closes_full>>
PrevMaCases ==
    {<<Absent, Absent, <<>> >>, <<Absent, Absent, ClosesShort>>,
     <<Absent, Absent, ClosesBelow>>, <<Absent, Absent, ClosesAbove>>,
     <<Absent, Absent, ClosesBadOld>>,
     <<Num(Low), Num(Mid), <<>> >>, <<Num(Mid), Num(Mid), <<>> >>,
     <<Num(High), Num(Mid), <<>> >>, <<Str(Low), Num(Mid), ClosesAbove>>,
     <<Num(High), Num(Mid), ClosesBelow>>, <<Num(Low), Num(Mid), ClosesBelow>>,
     <<PyNone, Num(Mid), ClosesBelow>>, <<Num(Low), Absent, ClosesAbove>>}

PriceDomain == {PyNone, Num(19000), Num(23000)}
Ma50Domain == {PyNone, Num(Low), Num(Mid), Str(High)}
Ma200Domain == {Absent, Num(Mid)}

RsiDomain == {PyNone, BadStr, Str(20), Num(50), Num(80)}
\* <<macd, macd_signal, macd_previous>>
MacdTriples == {<<Absent, Absent, Absent>>, <<Num(10), Num(0), PyNone>>,
                <<Num(-10), Num(0), Absent>>, <<Num(10), Num(0), Num(-10)>>,
                <<Num(10), Num(0), Num(10)>>, <<Num(-10), Num(0), Num(10)>>,
                <<Num(0), Num(0), Num(10)>>, <<Num(10), EmptyStr, Num(-10)>>}
\* <<volume, avg_volume_20d>>
VolumePairs == {<<Absent, Absent>>, <<Num(180), Num(100)>>, <<Num(60), Num(100)>>,
                <<Num(100), Num(100)>>, <<Num(100), Num(0)>>, <<Num(200), NoneStr>>}

\* <<rsi, macd triple, volume pair>>: each indicator over its whole domain with
\* the other two quiet, and every mix of the bullish, bearish and quiet readings
QuietRsi == Num(50)
QuietMacd == <<Absent, Absent, Absent>>
QuietVolume == <<Num(100), Num(100)>>
IndicatorCases ==
    {<<r, QuietMacd, QuietVolume>> : r \in RsiDomain}
    \cup {<<QuietRsi, m, QuietVolume>> : m \in MacdTriples}
    \cup {<<QuietRsi, QuietMacd, vp>> : vp \in VolumePairs}
    \cup {<<r, m, vp>> : r \in {Str(20), QuietRsi, Num(80)},
                         m \in {<<Num(10), Num(0), Num(-10)>>, QuietMacd,
                                <<Num(-10), Num(0), Num(10)>>},
                         vp \in {<<Num(180), Num(100)>>, QuietVolume,
                                 <<Num(60), Num(100)>>}}

\* an argument that is not a dict at all
NotADict == [EmptyTech EXCEPT !.is_dict = FALSE]

PatternTechDomain ==
    {NotADict} \cup
    {[EmptyTech EXCEPT !.current_price = p, !.ma_50 = a, !.ma_200 = b,
                       !.prev_ma_50 = pm[1], !.prev_ma_200 = pm[2],
                       !.daily_closes_full = pm[3],
                       !.rsi = ic[1], !.macd = ic[2][1], !.macd_signal = ic[2][2],
                       !.macd_previous = ic[2][3], !.volume = ic[3][1],
                       !.avg_volume_20d = ic[3][2]] :
        p \in PriceDomain, a \in Ma50Domain, b \in Ma200Domain,
        pm \in PrevMaCases, ic \in IndicatorCases}

\* snapshots for repeated analysis: every case of prior averages and closes
IdemTechDomain ==
    {[EmptyTech EXCEPT !.current_price = Num(23000), !.ma_50 = a, !.ma_200 = Num(Mid),
                       !.prev_ma_50 = pm[1], !.prev_ma_200 = pm[2],
                       !.daily_closes_full = pm[3], !.rsi = r] :
        a \in {Num(Low), Num(High), Str(High)}, pm \in PrevMaCases,
        r \in {Num(50), Str(20), BadStr}}

Revisions == {"v2.5.2", "v0.3.0"}

NoPattern == [score |-> 0, signal |-> "", detected |-> <<>>]

\* how many times one snapshot is analysed again
MaxCalls == 2

(***************************************************************************)
(* Inputs of the scorer: one category over its whole domain at a time,     *)
(* the other two taken from a few fixed dicts.                             *)
(***************************************************************************)
\* <<current_price, ma_50, ma_200>>
ScoreTrendCases ==
    {<<Absent, Absent, Absent>>, <<Num(23000), Num(High), Num(Mid)>>,
     <<Num(23000), Num(Low), Num(Mid)>>, <<Num(21500), Num(High), Num(Mid)>>,
     <<Num(19000), Num(High), Num(Mid)>>}
ScoreRsiDomain == {PyNone, Num(20), Num(35), Num(42), Num(50), Num(65)}
\* <<macd, macd_signal>>
ScoreMacdPairs == {<<Absent, Absent>>, <<Num(10), Num(0)>>, <<Num(95), Num(100)>>,
                   <<Num(50), Num(100)>>}
ScoreVolumePairs == {<<Absent, Absent>>, <<Num(130), Num(100)>>,
                     <<Num(110), Num(100)>>, <<Num(90), Num(100)>>}
ScoreChangeDomain == {PyNone, Num(-50), Num(30), Num(70), Num(120)}
ScoreVolatilityDomain == {Absent, Num(30)}

TechScoreFull ==
    {[EmptyTech EXCEPT !.current_price = tc[1], !.ma_50 = tc[2], !.ma_200 = tc[3],
                       !.rsi = r, !.macd = mp[1], !.macd_signal = mp[2],
                       !.volume = vp[1], !.avg_volume_20d = vp[2],
                       !.price_change_1m = ch, !.volatility_30d = vo] :
        tc \in ScoreTrendCases, r \in ScoreRsiDomain, mp \in ScoreMacdPairs,
        vp \in ScoreVolumePairs, ch \in ScoreChangeDomain, vo \in ScoreVolatilityDomain}

\* full marks on every technical, risk and sentiment metric it carries
StrongTech ==
    [EmptyTech EXCEPT !.current_price = Num(23000), !.ma_50 = Num(High),
                      !.ma_200 = Num(Mid), !.rsi = Num(50), !.macd = Num(10),
                      !.macd_signal = Num(0), !.volume = Num(130),
                      !.avg_volume_20d = Num(100), !.price_change_1m = Num(120),
                      !.volatility_30d = Num(10)]
\* no credit on any metric
WeakTech ==
    [EmptyTech EXCEPT !.current_price = Num(19000), !.ma_50 = Num(High),
                      !.ma_200 = Num(Mid), !.rsi = Num(20), !.macd = Num(50),
                      !.macd_signal = Num(100), !.volume = Num(90),
                      !.avg_volume_20d = Num(100), !.price_change_1m = Num(-50),
                      !.volatility_30d = Num(150)]
\* a string where a number belongs
StringTech == [EmptyTech EXCEPT !.rsi = BadStr]

TechSmall == {EmptyTech, StrongTech, WeakTech, StringTech}

FundFull ==
    {[market_cap |-> mc, pe_ratio |-> pe, debt_to_equity |-> de, revenue_ttm |-> rev,
      eps |-> eps, beta |-> be] :
        mc \in {PyNone, Num(1), Num(5), Num(50), Num(150), Num(250)},
        pe \in {PyNone, Num(3), Num(7), Num(18), Num(30), Num(40)},
        de \in {PyNone, Num(30), Num(70), Num(150)},
        rev \in {PyNone, Num(5), Num(15)},
        eps \in {PyNone, Num(-1), Num(3), Num(6)},
        be \in {Absent, Num(5), Num(10), Num(15)}}

\* market_cap 250e9, P/E 18, debt/equity 0.3, revenue 15e9, EPS 6
ExampleFund ==
    [EmptyFund EXCEPT !.market_cap = Num(250), !.pe_ratio = Num(18),
                      !.debt_to_equity = Num(30), !.revenue_ttm = Num(15),
                      !.eps = Num(6)]
WeakFund ==
    [EmptyFund EXCEPT !.market_cap = Num(1), !.pe_ratio = Num(40),
                      !.debt_to_equity = Num(150), !.revenue_ttm = Num(5),
                      !.eps = Num(-1), !.beta = Num(15)]
StringFund == [ExampleFund EXCEPT !.market_cap = Str(250)]
\* a company at a loss: negative P/E
LossFund == [WeakFund EXCEPT !.pe_ratio = Num(-5)]

FundSmall == {EmptyFund, ExampleFund, WeakFund, StringFund}

MacroFull ==
    {[fed_funds_rate |-> ra, unemployment |-> un, consumer_sentiment |-> cs] :
        ra \in {PyNone, Num(10), Num(30), Num(50), Num(70)},
        un \in {PyNone, Num(40), Num(50), Num(70)},
        cs \in {Absent, Num(50), Num(70), Num(90)}}

MidMacro ==
    [fed_funds_rate |-> Num(30), unemployment |-> Num(50), consumer_sentiment |-> Num(70)]

\* technical 1.0, fundamental 1.0, macro 2.0, risk 3.0: a composite of exactly 1.5
\* MACD and signal, in hundredths, around a negative, a zero and a positive
\* signal line
ScoreMacdSignals == {-100, -10, 0, 10, 100}
ScoreMacdClose ==
    {<<Num(sg + d), Num(sg)>> : sg \in ScoreMacdSignals,
                                d \in {-50, -11, -9, -5, -1, 0, 1, 5}}

\* technical data with nothing but the MACD and its signal
MacdOnlyTech ==
    {[EmptyTech EXCEPT !.macd = mp[1], !.macd_signal = mp[2]] : mp \in ScoreMacdClose}

SellBoundaryInput ==
    <<[WeakTech EXCEPT !.volatility_30d = Absent],
      [WeakFund EXCEPT !.market_cap = Absent, !.beta = Absent],
      [EmptyMacro EXCEPT !.unemployment = Num(50), !.consumer_sentiment = Num(50)]>>

\* <<technical, fundamental, macro>>
ScoreInputs ==
    {<<t, fm[1], fm[2]>> : t \in TechScoreFull,
                           fm \in {<<EmptyFund, EmptyMacro>>, <<ExampleFund, MidMacro>>}}
    \cup ({EmptyTech} \X FundFull \X {MidMacro})
    \cup (TechSmall \X FundSmall \X (MacroFull \cup {EmptyMacro}))
    \cup {SellBoundaryInput}
    \cup (MacdOnlyTech \X {EmptyFund} \X {EmptyMacro})

\* the sides float rounding can land the composite of these inputs on
TieOutcomes(t, f, m) ==
    LET ts == _score_technical(t).score
        fs == _score_fundamental(f).score
        ms == _score_macro(m).score
        rs == _score_risk(t, f).score
        exact == WeightedSum([technical |-> ts, fundamental |-> fs, macro |-> ms,
                              risk |-> rs])
    IN  IF exact % 100 = 50 THEN BOOLEAN ELSE {FALSE}

(***************************************************************************)
(* Inputs of the backtester: a pattern score on either side of every tier, *)
(* with and without a high-conviction pattern, and every window of closes  *)
(* of one bar less than lookback_days up to one bar more.                  *)
(***************************************************************************)
LookbackDays == 3

BtScores == {200, 250, 300, 350, 420, 450}

BtPatterns ==
    {[is_list |-> TRUE, items |-> <<"Strong Uptrend", "Golden Cross">>],
     [is_list |-> TRUE, items |-> <<"Mixed/Range">>],
     [is_list |-> FALSE, items |-> <<>>]}

BtCloses == {PyNone, Num(98), Num(100), Num(104), Num(108)}

BtBars ==
    UNION {[1..n -> BtCloses] : n \in (LookbackDays - 1)..(LookbackDays + 1)}

BtAggs ==
    {[ok |-> FALSE, results |-> <<>>]} \cup {[ok |-> TRUE, results |-> b] : b \in BtBars}

\* a window long enough for a breakout within 30% of it: flat closes, then
\* any two closes
LongLookback == 2 * LookbackDays + 1

BtLongBars ==
    {[i \in 1..LongLookback |->
        IF i <= LongLookback - 2 THEN Num(100) ELSE t[i - (LongLookback - 2)]] :
        t \in [1..2 -> BtCloses]}

\* the window of the default call: flat closes, then any two closes
BtDefaultBars ==
    {[i \in 1..DefaultLookback |->
        IF i <= DefaultLookback - 2 THEN Num(100) ELSE t[i - (DefaultLookback - 2)]] :
        t \in [1..2 -> BtCloses]}

BtCalls ==
    {[pattern_score |-> s, detected_patterns |-> d, lookback_days |-> LookbackDays,
      aggs |-> a] : s \in BtScores, d \in BtPatterns, a \in BtAggs}
    \cup
    {[pattern_score |-> s, detected_patterns |-> d, lookback_days |-> LongLookback,
      aggs |-> [ok |-> TRUE, results |-> b]] :
        s \in BtScores, d \in BtPatterns, b \in BtLongBars}
    \cup
    {[pattern_score |-> s, detected_patterns |-> d, lookback_days |-> DefaultLookback,
      aggs |-> [ok |-> TRUE, results |-> b]] :
        s \in BtScores, d \in BtPatterns, b \in BtDefaultBars}

NoCall ==
    [pattern_score |-> 300, detected_patterns |-> [is_list |-> TRUE, items |-> <<>>],
     lookback_days |-> LookbackDays, aggs |-> [ok |-> FALSE, results |-> <<>>]]

NoBacktest == [_no_data_result EXCEPT !.direction = ""]

(***************************************************************************)
(* Inputs of the comparator: each ticker's data is one of a few cases, and *)
(* the batch is any list of up to MaxTickers tickers, repeats included.    *)
(***************************************************************************)
Tickers == {"NVDA", "MSFT", "AMZN"}

MaxTickers == 3

CollectFails ==
    [ok |-> FALSE, technical |-> EmptyTech, fundamental |-> EmptyFund,
     macro |-> EmptyMacro, tieUp |-> FALSE]

Collected(t, f, m) ==
    {[ok |-> TRUE, technical |-> t, fundamental |-> f, macro |-> m, tieUp |-> u] :
        u \in TieOutcomes(t, f, m)}

MarketCases ==
    {CollectFails}
    \cup Collected(StrongTech, ExampleFund, MidMacro)
    \cup Collected(WeakTech, WeakFund, MidMacro)
    \cup Collected(EmptyTech, ExampleFund, EmptyMacro)
    \cup Collected(StringTech, ExampleFund, MidMacro)
    \cup Collected(StrongTech, EmptyFund, MidMacro)
    \cup Collected(WeakTech, LossFund, EmptyMacro)

NoMarket == [t \in Tickers |-> CollectFails]

TickerLists == UNION {[1..n -> Tickers] : n \in 0..MaxTickers}

(***************************************************************************)
(* Inputs of the polling workflow: the timeout and skip_polling arguments, *)
(* the Stock Analyses page as the run finds it, and what is done to the    *)
(* page in Notion while the run waits.                                     *)
(***************************************************************************)
MaxTimeout == 30

Timeouts == {t \in 0..MaxTimeout : t % poll_interval = 0} \cup {MaxTimeout}

WorkflowArgs == [timeout : Timeouts, skip_polling : BOOLEAN]

BlockTypes == {"paragraph", "synced_block"}

MaxBlocks == 2

PageBlockCases == UNION {[1..n -> BlockTypes] : n \in 0..MaxBlocks}

\* the page is new, or is left over from an earlier run
InitialStatuses == {"", "Logged in History"}

\* what the person or the AI prompt selects in Notion
NotionStatuses == {"", "Pending Analysis", "Send to History"}

MaxEdits == 2

\* a request takes no time, or all the time it is given
Latencies == {0, PollRequestTimeout}

ArchiveRequests ==
    [read : RequestOutcomes, create : RequestOutcomes, append : RequestOutcomes,
     update : RequestOutcomes]

NoLog ==
    [saw |-> FALSE, polls |-> 0, failed |-> 0, patch |-> "none", archive |-> NoRequests]

NoWorkflow ==
    /\ wfArgs = [timeout |-> 0, skip_polling |-> FALSE]
    /\ wfPc = "done"
    /\ wfNow = 0
    /\ wfReady = "none"
    /\ wfLog = NoLog
    /\ pageStatus = ""
    /\ pageBlocks = <<>>
    /\ pageEdits = 0
    /\ historyPages = <<>>
    /\ historyId = 0

(***************************************************************************)
(* Inputs of _build_properties: the first n counted fields hold a number,  *)
(* the others None, and one field holds any kind of value.                 *)
(***************************************************************************)
QualityValues == {Absent, PyNone, Num(0), Num(5), Str(0), Str(5), EmptyStr, BadStr}

QualityData(n, field, value) ==
    LET filled(i, key) == IF key = field THEN value
                          ELSE IF i <= n THEN Num(5) ELSE PyNone
    IN  [technical |->
            [key \in {TechCounted[i] : i \in 1..Len(TechCounted)} |->
                filled(CHOOSE i \in 1..Len(TechCounted) : TechCounted[i] = key, key)],
         fundamental |->
            [key \in {FundCounted[i] : i \in 1..Len(FundCounted)} |->
                filled(Len(TechCounted)
                           + CHOOSE i \in 1..Len(FundCounted) : FundCounted[i] = key,
                       key)]]

QualityInputs ==
    {QualityData(n, TechCounted[i], v) :
        n \in 0..(Len(TechCounted) + Len(FundCounted)), i \in 1..Len(TechCounted),
        v \in QualityValues}
    \cup
    {QualityData(n, FundCounted[i], v) :
        n \in 0..(Len(TechCounted) + Len(FundCounted)), i \in 1..Len(FundCounted),
        v \in QualityValues}

NoQualityData == QualityData(0, "current_price", PyNone)

NoQuality ==
    /\ dqData = NoQualityData
    /\ dqProps = NoProps

PatternIdle ==
    /\ patCalls = 0
    /\ patFirst = NoPattern
    /\ patLast = NoPattern

ScoreIdle ==
    /\ scoreCalls = 0
    /\ scoresFirst = NoScores
    /\ scoresLast = NoScores

BacktestIdle == btResult = NoBacktest

CompareIdle == cmpResult = NoComparison

NoScoreInput ==
    /\ fund = EmptyFund
    /\ macro = EmptyMacro
    /\ fpTieUp = FALSE

NoBacktestInput == btCall = NoCall

NoCompareInput ==
    /\ market = NoMarket
    /\ cmpTickers = <<>>

Idle == PatternIdle /\ ScoreIdle /\ BacktestIdle /\ CompareIdle

InitPattern ==
    /\ revision \in Revisions
    /\ tech \in PatternTechDomain
    /\ NoScoreInput
    /\ NoBacktestInput
    /\ NoCompareInput
    /\ NoWorkflow
    /\ NoQuality
    /\ Idle

InitScore ==
    /\ revision = "v2.5.2"
    /\ \E in \in ScoreInputs :
          /\ tech = in[1]
          /\ fund = in[2]
          /\ macro = in[3]
          /\ fpTieUp \in TieOutcomes(in[1], in[2], in[3])
    /\ NoBacktestInput
    /\ NoCompareInput
    /\ NoWorkflow
    /\ NoQuality
    /\ Idle

\* one snapshot object and one data dict, each analysed more than once
InitIdem ==
    /\ revision \in Revisions
    /\ tech \in IdemTechDomain
    /\ \E fm \in {<<EmptyFund, EmptyMacro>>, <<ExampleFund, MidMacro>>,
                    <<StringFund, MidMacro>>} :
          /\ fund = fm[1]
          /\ macro = fm[2]
          /\ fpTieUp \in TieOutcomes(tech, fm[1], fm[2])
    /\ NoBacktestInput
    /\ NoCompareInput
    /\ NoWorkflow
    /\ NoQuality
    /\ Idle

InitBacktest ==
    /\ revision = "v0.3.0"
    /\ tech = EmptyTech
    /\ NoScoreInput
    /\ btCall \in BtCalls
    /\ NoCompareInput
    /\ NoWorkflow
    /\ NoQuality
    /\ Idle

InitCompare ==
    /\ revision = "v0.3.0"
    /\ tech = EmptyTech
    /\ NoScoreInput
    /\ NoBacktestInput
    /\ market \in [Tickers -> MarketCases]
    /\ cmpTickers \in TickerLists
    /\ NoWorkflow
    /\ NoQuality
    /\ Idle

\* compute_pattern_score(tech) on the snapshot object at hand
ComputePattern ==
    /\ patCalls < MaxCalls
    /\ LET out == compute_pattern_score(revision, tech)
       IN  /\ tech' = out.tech
           /\ patLast' = out.result
           /\ patFirst' = IF patCalls = 0 THEN out.result ELSE patFirst
    /\ patCalls' = patCalls + 1
    /\ UNCHANGED <<revision, dqVars, scoreVars, btVars, cmpVars, wfVars>>

\* StockScorer().calculate_scores(data) on the data at hand
CalculateScores ==
    /\ scoreCalls < MaxCalls
    /\ tech.is_dict
    /\ LET out == calculate_scores(Data(tech, fund, macro), fpTieUp)
       IN  /\ scoresLast' = out
           /\ scoresFirst' = IF scoreCalls = 0 THEN out ELSE scoresFirst
    /\ scoreCalls' = scoreCalls + 1
    /\ UNCHANGED <<revision, dqVars, patVars, fund, macro, fpTieUp, btVars, cmpVars, wfVars>>

\* PatternBacktester(polygon).backtest_pattern(ticker, score, signal, patterns)
BacktestPattern ==
    /\ BacktestIdle
    /\ btResult' = backtest_pattern(btCall)
    /\ UNCHANGED <<revision, dqVars, patVars, scoreVars, btCall, cmpVars, wfVars>>

\* StockComparator(...).compare_stocks(tickers)
CompareStocks ==
    /\ CompareIdle
    /\ cmpResult' = compare_stocks(revision, cmpTickers, market)
    /\ UNCHANGED <<revision, dqVars, patVars, scoreVars, btVars, market, cmpTickers, wfVars>>

\* analyze_and_sync_to_notion(ticker, timeout=..., skip_polling=...) with the
\* polling workflow, from the call of sync_to_notion on
InitWorkflow ==
    /\ revision = "v0.3.0"
    /\ tech = EmptyTech
    /\ NoScoreInput
    /\ NoBacktestInput
    /\ NoCompareInput
    /\ NoQuality
    /\ Idle
    /\ wfArgs \in WorkflowArgs
    /\ wfPc = "sync"
    /\ wfNow = 0
    /\ wfReady = "none"
    /\ wfLog = NoLog
    /\ pageStatus \in InitialStatuses
    /\ pageBlocks \in PageBlockCases
    /\ pageEdits = 0
    /\ historyPages = <<>>
    /\ historyId = 0

\* notion.sync_to_notion(ticker, data, scores, True); without a page id the
\* workflow ends here
SyncToNotion ==
    /\ wfPc = "sync"
    /\ \E outcome \in RequestOutcomes :
          LET up == _upsert_analyses(pageStatus, outcome)
          IN  /\ pageStatus' = up.status
              /\ wfPc' = IF up.page_id THEN "wait" ELSE "done"
    /\ UNCHANGED <<revision, dqVars, patVars, scoreVars, btVars, cmpVars, wfArgs, wfNow,
                   wfReady, wfLog, pageBlocks, pageEdits, historyPages, historyId>>

\* wait_for_analysis_completion up to the loop
StartWait ==
    /\ wfPc = "wait"
    /\ IF wfArgs.skip_polling
       THEN wfReady' = "False" /\ wfPc' = "returned"
       ELSE wfReady' = wfReady /\ wfPc' = "poll"
    /\ wfNow' = 0
    /\ UNCHANGED <<revision, dqVars, patVars, scoreVars, btVars, cmpVars, wfArgs, wfLog,
                   pageStatus, pageBlocks, pageEdits, historyPages, historyId>>

\* one pass of the while loop
Poll ==
    /\ wfPc = "poll"
    /\ LoopRuns(wfNow, wfArgs.timeout)
    /\ \E outcome \in RequestOutcomes, latency \in Latencies :
          LET out == PollOnce(pageStatus, wfNow, outcome, latency)
          IN  /\ wfNow' = out.now
              /\ wfReady' = IF out.returned THEN "True" ELSE wfReady
              /\ wfPc' = IF out.returned THEN "returned" ELSE "poll"
              /\ wfLog' = [wfLog EXCEPT
                              !.polls = @ + 1,
                              !.failed = IF outcome = "ok" THEN @ ELSE @ + 1,
                              !.saw = @ \/ (outcome = "ok"
                                            /\ pageStatus = "Send to History")]
    /\ UNCHANGED <<revision, dqVars, patVars, scoreVars, btVars, cmpVars, wfArgs,
                   pageStatus, pageBlocks, pageEdits, historyPages, historyId>>

\* the loop condition fails: the code after the loop
TimeOut ==
    /\ wfPc = "poll"
    /\ ~LoopRuns(wfNow, wfArgs.timeout)
    /\ \E patch \in RequestOutcomes :
          LET out == TimeoutReached(pageStatus, patch)
          IN  /\ pageStatus' = out.status
              /\ wfReady' = out.ready
              /\ wfLog' = [wfLog EXCEPT !.patch = patch]
    /\ wfPc' = "returned"
    /\ UNCHANGED <<revision, dqVars, patVars, scoreVars, btVars, cmpVars, wfArgs, wfNow,
                   pageBlocks, pageEdits, historyPages, historyId>>

\* if ready: history_page_id = notion.archive_to_history(analyses_page_id)
ArchiveToHistory ==
    /\ wfPc = "returned"
    /\ wfReady = "True"
    /\ \E req \in ArchiveRequests :
          LET out == archive_to_history(pageStatus, pageBlocks, historyPages, req)
          IN  /\ pageStatus' = out.status
              /\ historyPages' = out.history
              /\ historyId' = out.id
              /\ wfLog' = [wfLog EXCEPT !.archive = req]
    /\ wfPc' = "done"
    /\ UNCHANGED <<revision, dqVars, patVars, scoreVars, btVars, cmpVars, wfArgs, wfNow,
                   wfReady, pageBlocks, pageEdits>>

\* ready is False: nothing is archived
SkipArchive ==
    /\ wfPc = "returned"
    /\ wfReady = "False"
    /\ wfPc' = "done"
    /\ UNCHANGED <<revision, dqVars, patVars, scoreVars, btVars, cmpVars, wfArgs, wfNow,
                   wfReady, wfLog, pageStatus, pageBlocks, pageEdits, historyPages,
                   historyId>>

\* in Notion, someone changes the Content Status while the run waits
EditStatus ==
    /\ wfPc = "poll"
    /\ pageEdits < MaxEdits
    /\ pageStatus' \in NotionStatuses \ {pageStatus}
    /\ pageEdits' = pageEdits + 1
    /\ UNCHANGED <<revision, dqVars, patVars, scoreVars, btVars, cmpVars, wfArgs, wfPc,
                   wfNow, wfReady, wfLog, pageBlocks, historyPages, historyId>>

\* NotionClient(...)._build_properties(ticker, data, scores, db_type)
InitQuality ==
    /\ revision \in Revisions
    /\ tech = EmptyTech
    /\ NoScoreInput
    /\ NoBacktestInput
    /\ NoCompareInput
    /\ NoWorkflow
    /\ dqData \in QualityInputs
    /\ dqProps = NoProps
    /\ Idle

BuildProperties ==
    /\ dqProps = NoProps
    /\ dqProps' = _build_properties(dqData)
    /\ UNCHANGED <<revision, patVars, scoreVars, btVars, cmpVars, wfVars, dqData>>

NextPattern == ComputePattern

SpecPattern == InitPattern /\ [][NextPattern]_vars

NextScore == CalculateScores

SpecScore == InitScore /\ [][NextScore]_vars

NextIdem == ComputePattern \/ CalculateScores

SpecIdem == InitIdem /\ [][NextIdem]_vars

NextBacktest == BacktestPattern

SpecBacktest == InitBacktest /\ [][NextBacktest]_vars

NextCompare == CompareStocks

SpecCompare == InitCompare /\ [][NextCompare]_vars

\* the steps of the program itself
NextRun == SyncToNotion \/ StartWait \/ Poll \/ TimeOut \/ ArchiveToHistory \/ SkipArchive

NextWorkflow == NextRun \/ EditStatus

SpecWorkflow == InitWorkflow /\ [][NextWorkflow]_vars

\* the thread that runs the workflow is not suspended for ever
SpecWorkflowFair == SpecWorkflow /\ WF_vars(NextRun)

NextQuality == BuildProperties

SpecQuality == InitQuality /\ [][NextQuality]_vars

(***************************************************************************)
(* Properties of the pattern detector (under SpecPattern).                 *)
(***************************************************************************)
\* the documented band function of the signal label
SignalBand(score) ==
    IF score <= 200 THEN "Extremely Bearish"
    ELSE IF score <= 250 THEN "Bearish"
    ELSE IF score <= 350 THEN "Neutral"
    ELSE IF score <= 400 THEN "Bullish"
    ELSE "Extremely Bullish"

InDetected(name, result) ==
    \E i \in 1..Len(result.detected) : result.detected[i] = name

\* C1: in both revisions, whatever fields the snapshot has, the score that
\* compute_pattern_score returns lies in [1.0, 5.0] and the signal it returns is
\* the band of that same score (<=2.0 Extremely Bearish, <=2.5 Bearish,
\* <=3.5 Neutral, <=4.0 Bullish, otherwise Extremely Bullish).
C1_ScoreInRangeSignalInBand ==
    patCalls > 0 =>
        /\ 100 <= patLast.score
        /\ patLast.score <= 500
        /\ patLast.signal = SignalBand(patLast.score)

\* all five bullish patterns at once: the baseline increments add up to 6.2
C1_Witness ==
    /\ patCalls > 0
    /\ revision = "v2.5.2"
    /\ patLast.detected = <<"Golden Cross", "Strong Uptrend", "RSI Oversold",
                            "MACD Bullish Crossover", "Bullish Volume Surge">>
    /\ patLast.score = 500
    /\ patLast.signal = "Extremely Bullish"

\* prior and current averages all readable, prior MA50 <= prior MA200 and
\* current MA50 > current MA200
GoldenSetup(t) ==
    LET r == Readings(t)
    IN  /\ t.is_dict
        /\ ~IsNone(r.prev_ma50) /\ ~IsNone(r.prev_ma200)
        /\ ~IsNone(r.ma50) /\ ~IsNone(r.ma200)
        /\ r.prev_ma50.v <= r.prev_ma200.v
        /\ r.ma50.v > r.ma200.v

\* the otherwise identical snapshot with the prior moving averages absent
WithoutPriors(t) == [t EXCEPT !.prev_ma_50 = Absent, !.prev_ma_200 = Absent]

\* the close history alone yields prior averages with MA50 <= MA200
HistoryGivesGoldenSetup(t) == GoldenSetup(_derive_prev_mas(WithoutPriors(t)))

\* C7 as stated: with a golden-cross setup, "Golden Cross" is detected and the
\* score is strictly greater than that of the snapshot without prior averages.
C7_AsClaimed ==
    (patCalls > 0 /\ GoldenSetup(tech)) =>
        /\ InDetected("Golden Cross", patLast)
        /\ patLast.score >
             compute_pattern_score(revision, WithoutPriors(tech)).result.score

\* C7: with a golden-cross setup, "Golden Cross" is detected; the score is
\* strictly greater than that of the snapshot without prior averages unless that
\* snapshot's close history (201 or more closes) itself yields prior averages
\* with MA50 <= MA200, in which case it reports the cross too and scores the same.
C7_GoldenCrossRaisesScore ==
    (patCalls > 0 /\ GoldenSetup(tech)) =>
        LET other == compute_pattern_score(revision, WithoutPriors(tech)).result
        IN  /\ InDetected("Golden Cross", patLast)
            /\ IF HistoryGivesGoldenSetup(tech)
               THEN InDetected("Golden Cross", other) /\ patLast.score = other.score
               ELSE ~InDetected("Golden Cross", other) /\ patLast.score > other.score

\* prior averages equal and no close history: the cross alone lifts the score
C7_Witness ==
    /\ patCalls > 0
    /\ GoldenSetup(tech)
    /\ Readings(tech).prev_ma50.v = Readings(tech).prev_ma200.v
    /\ tech.daily_closes_full = <<>>
    /\ InDetected("Golden Cross", patLast)
    /\ patLast.score >
         compute_pattern_score(revision, WithoutPriors(tech)).result.score

(***************************************************************************)
(* Properties of the scorer (under SpecScore).                             *)
(***************************************************************************)
Scored == scoreCalls > 0 /\ scoresLast.status = "ok"

\* data that differ from the data at hand in the two readings that the
\* sentiment scorer bands more finely than the technical scorer
SentimentVariants ==
    {Data([tech EXCEPT !.rsi = r, !.price_change_1m = c], fund, macro) :
        r \in {Num(42), Num(50)}, c \in {Num(30), Num(70)}}

SameWeightedScores(a, b) ==
    /\ a.technical = b.technical
    /\ a.fundamental = b.fundamental
    /\ a.macro = b.macro
    /\ a.risk = b.risk

\* C2: composite == round(0.30*technical + 0.35*fundamental + 0.20*macro
\* + 0.15*risk, 2), and score sets that agree on those four scores have the same
\* composite whatever their sentiment scores are.
C2_CompositeIsWeightedSum ==
    Scored =>
        /\ scoresLast.composite =
              RoundFloat(30 * scoresLast.technical + 35 * scoresLast.fundamental
                           + 20 * scoresLast.macro + 15 * scoresLast.risk,
                         100, fpTieUp)
        /\ \A d \in SentimentVariants :
              LET other == calculate_scores(d, fpTieUp)
              IN  (other.status = "ok" /\ SameWeightedScores(other, scoresLast))
                      => other.composite = scoresLast.composite

\* another sentiment score on the same four weighted scores
C2_Witness ==
    /\ Scored
    /\ scoresLast.technical # scoresLast.fundamental
    /\ \E d \in SentimentVariants :
          LET other == calculate_scores(d, fpTieUp)
          IN  /\ other.status = "ok"
              /\ SameWeightedScores(other, scoresLast)
              /\ other.sentiment # scoresLast.sentiment

\* a metric is available when none of the fields it reads is missing or None
Available(d, keys) == \A key \in keys : ~IsNone(get(d, key))

\* every metric of every category: the dict and fields it reads, its weight
\* and the block the scorer computes for it
Metric(cat, dict, keys, weight, block) ==
    [cat |-> cat, dict |-> dict, keys |-> keys, weight |-> weight, block |-> block]

Metrics(d) ==
    LET t == d.technical
        f == d.fundamental
        m == d.macro
    IN  {Metric("technical", "technical", {"current_price", "ma_50", "ma_200"}, 3,
                TechTrendBlock(t)),
         Metric("technical", "technical", {"rsi"}, 2, TechRsiBlock(t)),
         Metric("technical", "technical", {"macd", "macd_signal"}, 2, TechMacdBlock(t)),
         Metric("technical", "technical", {"volume", "avg_volume_20d"}, 1,
                TechVolumeBlock(t)),
         Metric("technical", "technical", {"price_change_1m"}, 2, TechChangeBlock(t)),
         Metric("fundamental", "fundamental", {"market_cap"}, 3, FundMarketCapBlock(f)),
         Metric("fundamental", "fundamental", {"pe_ratio"}, 2, FundPeBlock(f)),
         Metric("fundamental", "fundamental", {"debt_to_equity"}, 2, FundDebtBlock(f)),
         Metric("fundamental", "fundamental", {"revenue_ttm"}, 1, FundRevenueBlock(f)),
         Metric("fundamental", "fundamental", {"eps"}, 2, FundEpsBlock(f)),
         Metric("macro", "macro", {"fed_funds_rate"}, 3, MacroRateBlock(m)),
         Metric("macro", "macro", {"unemployment"}, 2, MacroUnemploymentBlock(m)),
         Metric("macro", "macro", {"consumer_sentiment"}, 2, MacroSentimentBlock(m)),
         Metric("risk", "technical", {"volatility_30d"}, 3, RiskVolatilityBlock(t)),
         Metric("risk", "fundamental", {"market_cap"}, 2, RiskMarketCapBlock(f)),
         Metric("risk", "fundamental", {"beta"}, 2, RiskBetaBlock(f)),
         Metric("sentiment", "technical", {"rsi"}, 2, SentRsiBlock(t)),
         Metric("sentiment", "technical", {"volume", "avg_volume_20d"}, 1,
                SentVolumeBlock(t)),
         Metric("sentiment", "technical", {"price_change_1m"}, 2, SentChangeBlock(t))}

Categories == {"technical", "fundamental", "macro", "risk", "sentiment"}

AvailableMetrics(d, cat) ==
    {x \in Metrics(d) : x.cat = cat /\ Available(d[x.dict], x.keys)}

RECURSIVE SumWeights(_)
\* the summed weights of the metrics in S
SumWeights(S) ==
    IF S = {} THEN 0
    ELSE LET x == CHOOSE y \in S : TRUE
         IN  x.weight + SumWeights(S \ {x})

RECURSIVE SumCredits(_)
\* the summed credits the scorer gave the metrics in S
SumCredits(S) ==
    IF S = {} THEN 0
    ELSE LET x == CHOOSE y \in S : TRUE
         IN  x.block.c + SumCredits(S \ {x})

\* C3: a category none of whose metrics is available scores exactly 3.0, and a
\* metric that is not available adds nothing to max points or earned points.
C3_NoDataIsNeutral ==
    Scored =>
        LET d == Data(tech, fund, macro)
        IN  /\ \A cat \in Categories :
                  AvailableMetrics(d, cat) = {} => scoresLast[cat] = 300
            /\ \A x \in Metrics(d) :
                  ~Available(d[x.dict], x.keys) => (x.block.w = 0 /\ x.block.c = 0)

\* no technical field at all, and a fundamental dict with a None in it
C3_Witness ==
    /\ Scored
    /\ tech = EmptyTech
    /\ fund.pe_ratio = PyNone
    /\ fund.market_cap = Num(250)
    /\ scoresLast.technical = 300
    /\ scoresLast.sentiment = 300
    /\ scoresLast.fundamental # 300

EmptyMaps == tech = EmptyTech /\ fund = EmptyFund /\ macro = EmptyMacro

AllCategoriesNeutral ==
    /\ scoresLast.status = "ok"
    /\ \A cat \in Categories : scoresLast[cat] = 300
    /\ scoresLast.composite = 300

\* C4 as stated: empty maps give five scores of 3.0, composite 3.0 and "Hold".
C4_AsClaimed ==
    (scoreCalls > 0 /\ EmptyMaps) =>
        (AllCategoriesNeutral /\ scoresLast.recommendation = "Hold")

\* C4: empty technical, fundamental and macro maps give five category scores
\* of 3.0 and a composite of 3.0, and the recommendation is "Moderate Buy".
C4_EmptyMapsModerateBuy ==
    (scoreCalls > 0 /\ EmptyMaps) =>
        (AllCategoriesNeutral /\ scoresLast.recommendation = "Moderate Buy")

C4_Witness ==
    /\ scoreCalls > 0
    /\ EmptyMaps
    /\ scoresLast.composite = 300
    /\ scoresLast.recommendation # "Hold"

\* the documented recommendation bands, closed at their lower bounds
RecommendationBand(composite) ==
    IF composite >= 400 THEN "Strong Buy"
    ELSE IF composite >= 350 THEN "Buy"
    ELSE IF composite >= 300 THEN "Moderate Buy"
    ELSE IF composite >= 250 THEN "Hold"
    ELSE IF composite >= 200 THEN "Moderate Sell"
    ELSE IF composite >= 150 THEN "Sell"
    ELSE "Strong Sell"

\* C5: the recommendation is the first band, in descending order, whose closed
\* lower bound the composite reaches (>=4.0 Strong Buy, >=3.5 Buy, >=3.0
\* Moderate Buy, >=2.5 Hold, >=2.0 Moderate Sell, >=1.5 Sell, else Strong
\* Sell), so a composite exactly on a boundary gets the higher label.
C5_RecommendationBands ==
    Scored => scoresLast.recommendation = RecommendationBand(scoresLast.composite)

\* a composite exactly on the lowest boundary gets the higher label
C5_Witness ==
    /\ Scored
    /\ scoresLast.composite = 150
    /\ scoresLast.recommendation = "Sell"

\* C6: in every category with an available metric, with max the summed weights
\* of the available metrics and earned their summed credits, the score is
\* round(1.0 + (earned/max)*4.0, 2), 0 <= earned <= max, the score lies in
\* [1.0, 5.0] and is 5.0 exactly when earned == max; the example fundamentals
\* (market cap 250e9, P/E 18, D/E 0.3, revenue 15e9, EPS 6) score 5.0.
C6_ScoreIsAffineInEarnedShare ==
    Scored =>
        LET d == Data(tech, fund, macro)
        IN  /\ \A cat \in Categories :
                  LET avail == AvailableMetrics(d, cat)
                      maxp == SumWeights(avail)
                      earned == SumCredits(avail)
                  IN  avail # {} =>
                          /\ \A x \in avail : x.block.w = x.weight
                          /\ \A x \in avail : 0 <= x.block.c /\ x.block.c <= x.weight
                          /\ 0 <= earned /\ earned <= maxp
                          /\ scoresLast[cat] =
                                RoundHalfEven(100 * maxp + 400 * earned, maxp)
                          /\ 100 <= scoresLast[cat] /\ scoresLast[cat] <= 500
                          /\ (scoresLast[cat] = 500 <=> earned = maxp)
            /\ fund = ExampleFund => scoresLast.fundamental = 500

\* the example fundamentals next to a technical category short of full marks
C6_Witness ==
    /\ Scored
    /\ fund = ExampleFund
    /\ scoresLast.fundamental = 500
    /\ AvailableMetrics(Data(tech, fund, macro), "technical") # {}
    /\ scoresLast.technical < 500
    /\ scoresLast.technical > 100

(***************************************************************************)
(* Repeated analysis of the same objects (under SpecIdem).                 *)
(***************************************************************************)
\* C8: a second compute_pattern_score on the same snapshot object, and a second
\* calculate_scores on the same data, return what the first call returned.
C8_SecondCallSameResult ==
    /\ patCalls >= 2 => patLast = patFirst
    /\ scoreCalls >= 2 => scoresLast = scoresFirst

\* the first call left derived prior averages in the snapshot, which made its
\* golden cross; the second call found them there
C8_Witness ==
    /\ patCalls >= 2
    /\ scoreCalls >= 2
    /\ tech.daily_closes_full = ClosesBelow
    /\ tech.prev_ma_200 = Num(21500)
    /\ InDetected("Golden Cross", patFirst)
    /\ patLast = patFirst
    /\ scoresLast.status = "ok"

(***************************************************************************)
(* Properties of the backtester (under SpecBacktest).                      *)
(***************************************************************************)
\* the closes rise bar after bar from the pattern-detection bar, the first of
\* the window
RisesAfterPatternBar(bars) ==
    /\ Len(bars) >= 2
    /\ \A i \in 1..Len(bars) : bars[i].k = "num"
    /\ \A i \in 1..(Len(bars) - 1) : bars[i].v < bars[i + 1].v

\* C9 as stated: a bullish pattern (score >= 3.5) followed by at least
\* lookback_days bars whose close rises monotonically is backtested as
\* direction "bullish" with prediction_correct True.
C9_AsClaimed ==
    (/\ btResult # NoBacktest
     /\ btCall.pattern_score >= 350
     /\ btCall.aggs.ok
     /\ Len(btCall.aggs.results) >= btCall.lookback_days
     /\ RisesAfterPatternBar(btCall.aggs.results))
        => (btResult.direction = "bullish" /\ btResult.prediction_correct)

(***************************************************************************)
(* Properties of the comparator (under SpecCompare).                       *)
(***************************************************************************)
\* the tickers of the batch that are collected and scored without an exception
ScoredTickers ==
    {t \in {cmpTickers[i] : i \in 1..Len(cmpTickers)} :
        Analyse(revision, t, market[t]).ok}

CompositeOf(t) == Analyse(revision, t, market[t]).scores.composite

\* C10: a batch with two or more successfully scored tickers gets
\* rankings.overall listing exactly those tickers, each with its composite, in
\* non-increasing order of composite, and buy_now is the first of the list: a
\* ticker whose composite is maximal.
C10_OverallRankingDescending ==
    (cmpResult # NoComparison /\ Cardinality(ScoredTickers) >= 2) =>
        LET overall == cmpResult.rankings.overall
        IN  /\ cmpResult.status = "ok"
            /\ Len(overall) = Cardinality(ScoredTickers)
            /\ {overall[i].t : i \in 1..Len(overall)} = ScoredTickers
            /\ \A i \in 1..Len(overall) : overall[i].k = CompositeOf(overall[i].t)
            /\ \A i \in 1..(Len(overall) - 1) : overall[i].k >= overall[i + 1].k
            /\ cmpResult.recommendation.buy_now = overall[1].t
            /\ \A t \in ScoredTickers :
                  CompositeOf(cmpResult.recommendation.buy_now) >= CompositeOf(t)

\* three tickers handed over worst first come out best first
C10_Witness ==
    /\ cmpResult.status = "ok"
    /\ Len(cmpTickers) = 3
    /\ Len(cmpResult.rankings.overall) = 3
    /\ cmpResult.rankings.overall[1].k > cmpResult.rankings.overall[2].k
    /\ cmpResult.rankings.overall[2].k > cmpResult.rankings.overall[3].k
    /\ cmpTickers[1] = cmpResult.rankings.overall[3].t
    /\ cmpTickers[3] = cmpResult.recommendation.buy_now


\* the tickers of the batch, and those whose collection or scoring raises
BatchTickers == {cmpTickers[i] : i \in 1..Len(cmpTickers)}

Fails(t) ==
    \/ ~market[t].ok
    \/ calculate_scores(Data(market[t].technical, market[t].fundamental,
                             market[t].macro), market[t].tieUp).status = "raised"

RankedTickers(ranking) == {ranking[i].t : i \in 1..Len(ranking)}

\* C11: compare_stocks never raises; a ticker whose collection or scoring
\* raises is in neither analyses nor any ranking, the other tickers are all
\* compared; with fewer than two tickers scored the result is the error
\* record, which has no rankings.
C11_FailedTickerSkipped ==
    cmpResult # NoComparison =>
        LET good == {t \in BatchTickers : ~Fails(t)}
            r == cmpResult.rankings
        IN  /\ cmpResult.status \in {"ok", "error"}
            /\ Cardinality(good) >= 2 =>
                  /\ cmpResult.status = "ok"
                  /\ {cmpResult.tickers[i] : i \in 1..Len(cmpResult.tickers)} = good
                  /\ {cmpResult.analyses[i].ticker :
                        i \in 1..Len(cmpResult.analyses)} = good
                  /\ RankedTickers(r.overall) = good
                  /\ RankedTickers(r.momentum) = good
                  /\ RankedTickers(r.safety) = good
                  /\ RankedTickers(r.fundamentals) = good
                  /\ RankedTickers(r.value) \subseteq good
            /\ Cardinality(good) < 2 =>
                  /\ cmpResult.status = "error"
                  /\ cmpResult.rankings = NoComparison.rankings
                  /\ cmpResult.analyses = <<>>

\* a batch of three where one ticker's scoring raises and one other's data is
\* fine: the two remaining are compared
C11_Witness ==
    /\ cmpResult.status = "ok"
    /\ Len(cmpTickers) = 3
    /\ \E t \in BatchTickers : market[t].ok /\ Fails(t)
    /\ Len(cmpResult.rankings.overall) = 2


(***************************************************************************)
(* Properties of the polling workflow (under SpecWorkflow and, for         *)
(* termination, SpecWorkflowFair).                                         *)
(***************************************************************************)
HasSynced(blocks) == \E i \in 1..Len(blocks) : blocks[i] = "synced_block"

\* the run is over and one of its polls read "Send to History"
SendToHistorySeen == wfPc = "done" /\ wfLog.saw

\* the requests of archive_to_history that were made all succeeded
ArchiveSucceeded ==
    /\ wfLog.archive.read = "ok"
    /\ wfLog.archive.create = "ok"
    /\ wfLog.archive.update = "ok"
    /\ (\A i \in 1..Len(pageBlocks) : pageBlocks[i] = "synced_block")
          \/ wfLog.archive.append # "raise"

\* C12 as worded: whenever a poll saw "Send to History", one history page
\* exists and the Stock Analyses page is "Logged in History".
C12_AsClaimed ==
    SendToHistorySeen =>
        /\ wfReady = "True"
        /\ Len(historyPages) = 1
        /\ historyPages[1].status = "Historical"
        /\ ~HasSynced(historyPages[1].blocks)
        /\ pageStatus = "Logged in History"

\* C12: when a poll saw "Send to History", the wait returned True and
\* archive_to_history ran; it created at most one Stock History page, each
\* with Content Status "Historical" and without synced blocks; exactly one
\* when reading the page and creating the history page succeeded; and the
\* Stock Analyses page is "Logged in History" when the requests succeeded,
\* and still "Send to History" otherwise.
C12_ArchiveAfterSendToHistory ==
    SendToHistorySeen =>
        /\ wfReady = "True"
        /\ wfLog.archive # NoRequests
        /\ Len(historyPages) <= 1
        /\ \A i \in 1..Len(historyPages) :
              /\ historyPages[i].status = "Historical"
              /\ ~HasSynced(historyPages[i].blocks)
        /\ Len(historyPages) = 1 <=>
              (wfLog.archive.read = "ok" /\ wfLog.archive.create = "ok")
        /\ pageStatus = IF ArchiveSucceeded THEN "Logged in History"
                        ELSE "Send to History"

\* a page holding a synced block and a paragraph, archived with every request
\* succeeding: the copy holds the paragraph alone
C12_Witness ==
    /\ SendToHistorySeen
    /\ ArchiveSucceeded
    /\ pageBlocks = <<"synced_block", "paragraph">>
    /\ historyPages = <<[status |-> "Historical", blocks |-> <<"paragraph">>]>>
    /\ pageStatus = "Logged in History"
    /\ historyId = 1

\* the wait ran into its timeout: the code after the loop was run
TimedOut == wfLog.patch # "none" /\ ~wfLog.saw

\* C13 as worded: after a timeout the wait returned False, the page is
\* "Analysis Incomplete" and the run has created no history page.
C13_AsClaimed ==
    TimedOut =>
        /\ wfReady = "False"
        /\ pageStatus = "Analysis Incomplete"
        /\ historyPages = <<>>

\* C13: a wait whose polls never read "Send to History" ends, whatever its
\* poll requests meet; it returns False, the run creates no history page, and
\* the page is "Analysis Incomplete" exactly when the status update sent
\* after the timeout succeeded.
C13_TimeoutEndsTheWait ==
    /\ [](TimedOut =>
            /\ wfReady = "False"
            /\ historyPages = <<>>
            /\ historyId = 0
            /\ (pageStatus = "Analysis Incomplete") <=> (wfLog.patch = "ok"))
    /\ (wfPc = "poll") ~> (wfPc = "returned")

\* a run whose polls all failed while the page said "Send to History", ended
\* by the timeout
C13_Witness ==
    /\ wfPc = "done"
    /\ TimedOut
    /\ wfLog.patch = "ok"
    /\ wfLog.polls >= 2
    /\ wfLog.failed = wfLog.polls
    /\ pageEdits > 0
    /\ pageStatus = "Analysis Incomplete"


(***************************************************************************)
(* Further properties of the pattern detector (under SpecPattern).         *)
(***************************************************************************)
\* the call has been made on a dict whose three MACD values are all readable
MacdHistoryPresent ==
    /\ patCalls > 0
    /\ tech.is_dict
    /\ ~IsNone(Readings(tech).macd)
    /\ ~IsNone(Readings(tech).macd_sig)
    /\ ~IsNone(Readings(tech).macd_prev)

\* C14 as worded: with the three MACD values present, "MACD Bullish
\* Crossover" is reported exactly when previous MACD <= signal and current
\* MACD > signal, "MACD Bearish Crossover" exactly when previous MACD > signal
\* and current MACD <= signal, and nothing when the relationship is unchanged.
C14_AsClaimed ==
    MacdHistoryPresent =>
        LET r == Readings(tech)
            prev_above == r.macd_prev.v > r.macd_sig.v
            curr_above == r.macd.v > r.macd_sig.v
        IN  /\ InDetected("MACD Bullish Crossover", patLast)
                  <=> (~prev_above /\ curr_above)
            /\ InDetected("MACD Bearish Crossover", patLast)
                  <=> (prev_above /\ ~curr_above)

\* the call has been made on a dict whose four averages are all readable
AveragesPresent ==
    /\ patCalls > 0
    /\ tech.is_dict
    /\ ~IsNone(Readings(tech).ma50)
    /\ ~IsNone(Readings(tech).ma200)
    /\ ~IsNone(Readings(tech).prev_ma50)
    /\ ~IsNone(Readings(tech).prev_ma200)

\* C16 as worded: "Death Cross" is reported exactly when prior MA50 >= prior
\* MA200 and current MA50 < current MA200, which is when _detect_cross reports
\* a golden cross for the two averages exchanged.
C16_AsClaimed ==
    AveragesPresent =>
        LET r == Readings(tech)
        IN  /\ InDetected("Death Cross", patLast)
                  <=> (r.prev_ma50.v >= r.prev_ma200.v /\ r.ma50.v < r.ma200.v)
            /\ InDetected("Death Cross", patLast)
                  <=> _detect_cross(r.prev_ma200, r.prev_ma50, r.ma200, r.ma50)[1]

\* C19 as worded: no call of compute_pattern_score changes the snapshot it
\* is given.
C19_AsClaimed == [][tech' = tech]_vars

\* what the two revisions return for the snapshot at hand
BaselineResult == compute_pattern_score("v2.5.2", tech).result

WeightedResult == compute_pattern_score("v0.3.0", tech).result

BullishPatterns ==
    {"Golden Cross", "Strong Uptrend", "RSI Oversold", "MACD Bullish Crossover",
     "Bullish Volume Surge"}

BearishPatterns ==
    {"Death Cross", "Strong Downtrend", "RSI Overbought", "MACD Bearish Crossover",
     "Bearish Volume Dump"}

\* the detected patterns do not contradict one another
OneDirection(detected) ==
    \/ \A i \in 1..Len(detected) : detected[i] \notin BearishPatterns
    \/ \A i \in 1..Len(detected) : detected[i] \notin BullishPatterns

\* C20 as worded: for every snapshot the two modes detect the same patterns
\* and the weighted score is at least as far from 3.0 as the baseline score.
C20_AsClaimed ==
    \A b \in {BaselineResult}, w \in {WeightedResult} :
        /\ w.detected = b.detected
        /\ Abs(w.score - 300) >= Abs(b.score - 300)

\* C20: for every snapshot the two modes detect the same patterns; the
\* weighted score is at least as far from 3.0 as the baseline score, on the
\* same side, when the patterns all point one way and the baseline score is
\* strictly between 1.0 and 5.0.
C20_WeightedSpreadsUnclampedOneWay ==
    \A b \in {BaselineResult}, w \in {WeightedResult} :
        /\ w.detected = b.detected
        /\ (OneDirection(b.detected) /\ 100 < b.score /\ b.score < 500)
              => /\ Abs(w.score - 300) >= Abs(b.score - 300)
                 /\ (w.score - 300) * (b.score - 300) >= 0

\* the weighted revision has scored an uptrend with oversold RSI, bullish
\* MACD and a volume surge: 4.95 where the baseline gives 4.7
C20_Witness ==
    /\ patCalls > 0
    /\ revision = "v0.3.0"
    /\ patLast = WeightedResult
    /\ patLast.detected = <<"Strong Uptrend", "RSI Oversold",
                            "MACD Bullish Crossover", "Bullish Volume Surge">>
    /\ BaselineResult.score = 470
    /\ patLast.score > 470

(***************************************************************************)
(* Properties of the backtester's verdict (under SpecBacktest).            *)
(***************************************************************************)
\* the backtest ran on a window of at least lookback_days bars
BtSufficient == btResult # NoBacktest /\ btResult.direction # "unknown"

BtPatternPrice == safe_float(get(btCall.aggs.results, Len(btCall.aggs.results)), PyNone).v

BtExpected == _get_expected_move(btCall.pattern_score, btCall.detected_patterns)

\* what the scan of the window returned: the breakout day (0 for none) and
\* the move handed on
BtFound ==
    _find_breakout_day(btCall.aggs.results, BtPatternPrice, BtExpected,
                       _get_pattern_direction(btCall.pattern_score))

\* the signed price difference at the outcome bar: the breakout bar when one
\* is found, else the final bar
BtOutcomeDiff ==
    LET n == Len(btCall.aggs.results)
    IN  IF BtFound.day # 0
        THEN safe_float(get(btCall.aggs.results, n + 1 - BtFound.day), PyNone).v
                 - BtPatternPrice
        ELSE BtFound.num

\* the accuracy before it is rounded for the result
BtAccuracy ==
    _calculate_accuracy(btResult.prediction_correct,
                        [num |-> BtFound.num, den |-> BtFound.den],
                        BtExpected, btResult.direction)

\* C15 as stated: for a bearish pattern (score <= 2.5) with sufficient bars,
\* prediction_correct is True exactly when the realized move at the outcome
\* bar is negative; when a breakout bar is found, prediction_correct is True
\* and the reported actual_move is negative.
C15_AsClaimed ==
    (BtSufficient /\ btCall.pattern_score <= 250)
        => /\ btResult.prediction_correct <=> (BtOutcomeDiff < 0)
           /\ BtFound.day # 0
                => (btResult.prediction_correct /\ btResult.actual_move < 0)

\* C17: for every backtest that had sufficient bars, the reported accuracy
\* lies in [0, 25] when prediction_correct is False and in [50, 100] when it
\* is True, so it is within [0, 100] and never strictly between 25 and 50.
C17_AccuracyBands ==
    BtSufficient
        => /\ IF btResult.prediction_correct
              THEN btResult.accuracy >= 500 /\ btResult.accuracy <= 1000
              ELSE btResult.accuracy >= 0 /\ btResult.accuracy <= 250
           /\ btResult.accuracy >= 0 /\ btResult.accuracy <= 1000
           /\ ~(btResult.accuracy > 250 /\ btResult.accuracy < 500)

\* a correct prediction whose magnitude is partly off
C17_Witness ==
    /\ BtSufficient
    /\ btResult.prediction_correct
    /\ btResult.accuracy > 500
    /\ btResult.accuracy < 1000

\* a breakout day exists and is within tenths/10 of the lookback window
BreakoutWithin(tenths) ==
    BtFound.day # 0 /\ 10 * BtFound.day <= tenths * btCall.lookback_days

\* C18: confidence is "High" exactly when accuracy >= 80 and a breakout day
\* exists that is <= 30% of the lookback window; otherwise "Medium" exactly
\* when accuracy >= 60 or a breakout day exists that is <= 50% of the window;
\* otherwise "Low" (accuracy as computed, before it is rounded for the
\* result).  Hence "High" implies prediction_correct, and a result with no
\* breakout and accuracy < 60 is always "Low".
C18_ConfidenceTiers ==
    BtSufficient
        => \A acc \in {BtAccuracy} :
            LET high == acc.num >= 80 * acc.den /\ BreakoutWithin(3)
                medium == acc.num >= 60 * acc.den \/ BreakoutWithin(5)
            IN  /\ (btResult.confidence = "High") <=> high
                /\ (btResult.confidence = "Medium") <=> (~high /\ medium)
                /\ (btResult.confidence = "Low") <=> (~high /\ ~medium)
                /\ (btResult.confidence = "High") => btResult.prediction_correct
                /\ (BtFound.day = 0 /\ btResult.accuracy < 600)
                        => btResult.confidence = "Low"

\* an accurate prediction confirmed early in a long window
C18_Witness ==
    /\ BtSufficient
    /\ btResult.confidence = "High"
    /\ btResult.accuracy >= 800
    /\ BreakoutWithin(3)

(***************************************************************************)
(* Properties of the comparator's recommendation (under SpecCompare).      *)
(***************************************************************************)
\* the words the rationale carries for a dimension on which buy_now is first
Annotation(dimension) ==
    CASE dimension = "value" -> "best value"
      [] dimension = "momentum" -> "strongest momentum"
      [] dimension = "safety" -> "safest"
      [] dimension = "fundamentals" -> "best fundamentals"

InRationale(words) ==
    \E i \in 1..Len(cmpResult.recommendation.rationale) :
        cmpResult.recommendation.rationale[i] = words

\* the ticker ranks first on the dimension
RanksFirst(ticker, dimension) ==
    /\ Len(cmpResult.rankings[dimension]) > 0
    /\ cmpResult.rankings[dimension][1].t = ticker

\* C21 as stated: whenever the top overall ticker (buy_now) also ranks first
\* on value, momentum, safety or fundamentals, the rationale carries an
\* annotation for that dimension, and it carries none for a dimension on
\* which buy_now does not rank first.
C21_AsClaimed ==
    cmpResult.status = "ok"
        => \A dimension \in {"value", "momentum", "safety", "fundamentals"} :
              RanksFirst(cmpResult.recommendation.buy_now, dimension)
                  <=> InRationale(Annotation(dimension))

(***************************************************************************)
(* Properties of the scorer on malformed input (under SpecScore).          *)
(***************************************************************************)
\* the dict with every metric passed through safe_float: a value that is
\* not a number becomes None
Coerced(d) ==
    [key \in DOMAIN d |->
        IF key \in {"is_dict", "daily_closes_full"} THEN d[key]
        ELSE IF d[key].k = "absent" THEN d[key]
        ELSE safe_float(d[key], PyNone)]

\* C22 as stated: calculate_scores never raises on malformed numeric input;
\* a metric whose value is non-numeric or unparseable (e.g. a string) is
\* treated as absent by every category scorer, contributing to neither max
\* points nor earned points.
C22_AsClaimed ==
    scoreCalls > 0
        => /\ scoresLast.status = "ok"
           /\ scoresLast = calculate_scores(Data(Coerced(tech), Coerced(fund),
                                                 Coerced(macro)), fpTieUp)

(***************************************************************************)
(* Properties of the five rankings (under SpecCompare).                    *)
(***************************************************************************)
\* the P/E the comparator reads for a ticker
PeOf(t) == safe_float(get(market[t].fundamental, "pe_ratio"), PyNone)

PositivePe == {t \in ScoredTickers : ~IsNone(PeOf(t)) /\ PeOf(t).v > 0}

\* the ranking lists exactly the tickers of the set, each once
ListsExactly(ranking, tickers) ==
    /\ Len(ranking) = Cardinality(tickers)
    /\ {ranking[i].t : i \in 1..Len(ranking)} = tickers

\* C23: for every comparison with at least two scored tickers, each of the
\* overall, momentum, safety and fundamentals rankings contains every
\* successfully scored ticker exactly once, while the value ranking contains
\* exactly the scored tickers with a P/E > 0, lowest P/E first; best_value is
\* absent when no ticker has a positive P/E.
C23_RankingsCoverScoredTickers ==
    (cmpResult # NoComparison /\ Cardinality(ScoredTickers) >= 2) =>
        \A scored \in {ScoredTickers}, priced \in {PositivePe} :
            LET value == cmpResult.rankings.value
            IN  /\ cmpResult.status = "ok"
                /\ \A dimension \in {"overall", "momentum", "safety", "fundamentals"} :
                      ListsExactly(cmpResult.rankings[dimension], scored)
                /\ ListsExactly(value, priced)
                /\ \A i \in 1..(Len(value) - 1) :
                      PeOf(value[i].t).v <= PeOf(value[i + 1].t).v
                /\ (priced = {}) => cmpResult.recommendation.best_value = ""
                /\ (priced # {})
                      => cmpResult.recommendation.best_value = value[1].t

\* three scored tickers: one at a loss, and the dearer of the other two
\* handed over first
C23_Witness ==
    /\ cmpResult.status = "ok"
    /\ Cardinality(ScoredTickers) = 3
    /\ Len(cmpResult.rankings.value) = 2
    /\ Len(cmpResult.rankings.momentum) = 3
    /\ PeOf(cmpResult.rankings.value[1].t).v < PeOf(cmpResult.rankings.value[2].t).v
    /\ \E i, j \in 1..Len(cmpTickers) :
          /\ i < j
          /\ cmpTickers[i] = cmpResult.rankings.value[2].t
          /\ cmpTickers[j] = cmpResult.rankings.value[1].t

(***************************************************************************)
(* Properties of the backtester's scan (under SpecBacktest).               *)
(***************************************************************************)
\* some bar of the window closes more than 3% away from the reference close
MovesOutOfRange ==
    \E i \in 1..Len(btCall.aggs.results) :
        /\ btCall.aggs.results[i].k = "num"
        /\ 100 * Abs(btCall.aggs.results[i].v - BtPatternPrice) > 3 * BtPatternPrice

CountedAsAvailable ==
    {key \in DOMAIN dqData.technical :
        LET x == get(dqData.technical, key)
        IN  ~IsNone(x) /\ x # Num(0) /\ x # EmptyStr}
    \cup
    {key \in DOMAIN dqData.fundamental :
        LET x == get(dqData.fundamental, key)
        IN  IF key = "debt_to_equity" THEN ~IsNone(x)
            ELSE ~IsNone(x) /\ x # Num(0) /\ x # EmptyStr}

\* the data with the field set to None
WithoutField(key) ==
    IF key \in DOMAIN dqData.technical
    THEN [dqData EXCEPT !.technical[key] = PyNone]
    ELSE [dqData EXCEPT !.fundamental[key] = PyNone]

\* C26: in _build_properties the completeness ratio is (number of available
\* fields among the 20 counted) / 28, so for every input completeness is at
\* most 20/28: Data Quality Grade is never "A - Excellent" or "B - Good" and
\* Confidence is never "High"; and a counted field whose value is 0 (other
\* than debt_to_equity) is counted as unavailable.
C26_CompletenessOutOf28 ==
    dqProps.status = "ok"
        => /\ dqProps.Completeness = RoundHalfEven(100 * Cardinality(CountedAsAvailable), 28)
           /\ 28 * dqProps.Completeness <= 100 * 20 + 14
           /\ dqProps.Grade \in {"C - Fair", "D - Poor"}
           /\ dqProps.Confidence \in {"Medium-High", "Medium", "Low"}
           /\ \A key \in (DOMAIN dqData.technical \cup DOMAIN dqData.fundamental)
                            \ {"debt_to_equity"} :
                  (key \in DOMAIN dqData.technical /\ dqData.technical[key] = Num(0))
                  \/ (key \in DOMAIN dqData.fundamental /\ dqData.fundamental[key] = Num(0))
                    => LET without == _build_properties(WithoutField(key))
                       IN  /\ without.Completeness = dqProps.Completeness
                           /\ without.Grade = dqProps.Grade
                           /\ without.Confidence = dqProps.Confidence

\* every counted field but one holds a number, and that one holds 0
C26_Witness ==
    /\ dqProps.status = "ok"
    /\ Cardinality(CountedAsAvailable) = 19
    /\ \E key \in DOMAIN dqData.technical : dqData.technical[key] = Num(0)
    /\ dqProps.Completeness = 68
    /\ dqProps.Grade = "C - Fair"
    /\ dqProps.Confidence = "Medium"

(***************************************************************************)
(* Properties of the detected list (under SpecPattern).                    *)
(***************************************************************************)
OpposingPairs ==
    {<<"Golden Cross", "Death Cross">>, <<"Strong Uptrend", "Strong Downtrend">>,
     <<"RSI Oversold", "RSI Overbought">>,
     <<"MACD Bullish Crossover", "MACD Bearish Crossover">>,
     <<"Bullish Volume Surge", "Bearish Volume Dump">>}

\* no rule of compute_pattern_score holds of the snapshot
NoRuleFired == ~tech.is_dict \/ Hits(Readings(tech)) = <<>>

\* C27: for every technical snapshot the detected list never contains both
\* members of an opposing pair, never contains Golden Cross together with
\* Strong Downtrend nor Death Cross together with Strong Uptrend, contains
\* no duplicates, has at most five entries, and is ["Mixed/Range"] exactly
\* when no rule fired (in which case the score is 3.0 and the signal
\* Neutral).
C27_DetectedListConsistent ==
    patCalls > 0 =>
        \A detected \in {patLast.detected} :
            /\ \A pair \in OpposingPairs :
                  ~(InDetected(pair[1], patLast) /\ InDetected(pair[2], patLast))
            /\ ~(InDetected("Golden Cross", patLast)
                    /\ InDetected("Strong Downtrend", patLast))
            /\ ~(InDetected("Death Cross", patLast)
                    /\ InDetected("Strong Uptrend", patLast))
            /\ \A i, j \in 1..Len(detected) : i # j => detected[i] # detected[j]
            /\ Len(detected) <= 5
            /\ (detected = <<"Mixed/Range">>) <=> NoRuleFired
            /\ InDetected("Mixed/Range", patLast)
                  => /\ detected = <<"Mixed/Range">>
                     /\ patLast.score = 300
                     /\ patLast.signal = "Neutral"

\* five patterns of both directions, one from every rule
C27_Witness ==
    /\ patCalls > 0
    /\ Len(patLast.detected) = 5
    /\ InDetected("Death Cross", patLast)
    /\ InDetected("Strong Downtrend", patLast)
    /\ ~OneDirection(patLast.detected)

(***************************************************************************)
(* Properties of the wait against edits made in Notion (under              *)
(* SpecWorkflow).                                                          *)
(***************************************************************************)
\* C28 as stated: a "Send to History" status written to the Stock Analyses
\* page at any moment before the poller's timeout write is never lost: the
\* status is not overwritten with "Analysis Incomplete".
C28_AsClaimed ==
    [][(wfPc = "poll" /\ pageStatus = "Send to History")
            => pageStatus' # "Analysis Incomplete"]_vars

(***************************************************************************)
(* Order of the writes of archive_to_history (under SpecWorkflow).         *)
(***************************************************************************)
\* the step is the call of archive_to_history
ArchiveCalled == wfPc = "returned" /\ wfReady = "True" /\ wfPc' = "done"

\* C29: in archive_to_history the Stock Analyses page's Content Status
\* becomes "Logged in History" only after a Stock History page has been
\* created successfully; if reading the page or creating the History page
\* fails, the call returns None and writes nothing to the Stock Analyses
\* page; and in the polling workflow no Stock History page is ever created
\* before a poll has observed "Send to History".
C29_HistoryBeforeLoggedStatus ==
    /\ [][ArchiveCalled =>
            /\ (pageStatus' # pageStatus)
                  => /\ pageStatus' = "Logged in History"
                     /\ Len(historyPages') = Len(historyPages) + 1
                     /\ wfLog'.archive.create = "ok"
            /\ (wfLog'.archive.read # "ok" \/ wfLog'.archive.create # "ok")
                  => /\ historyId' = 0
                     /\ pageStatus' = pageStatus
                     /\ historyPages' = historyPages]_vars
    /\ [](historyPages # <<>> => wfLog.saw)

\* the page was read, the creation of the history page failed: the Stock
\* Analyses page still says "Send to History"
C29_Witness ==
    /\ wfPc = "done"
    /\ wfLog.saw
    /\ wfLog.archive.read = "ok"
    /\ wfLog.archive.create = "fail"
    /\ historyPages = <<>>
    /\ historyId = 0
    /\ pageStatus = "Send to History"

(***************************************************************************)
(* The MACD metric of the technical scorer (under SpecScore).              *)
(***************************************************************************)
\* the technical data at hand hold the MACD and its signal and nothing else
MacdAlone ==
    /\ tech \in MacdOnlyTech
    /\ Scored

\* the technical score of data whose only metric is the MACD, when the
\* metric earned the points given: 1.0 + points / 2 * 4.0, in hundredths
MacdAloneScore(points) == 100 + 200 * points

\* C30: the MACD metric earns 2 points when MACD > signal, 1 point when
\* MACD <= signal and MACD > 0.9 * signal, else 0; so with a signal line
\* that is zero or negative the 1-point convergence credit is never awarded,
\* however close MACD is to the signal.
C30_MacdConvergenceCredit ==
    MacdAlone =>
        LET macd == tech.macd.v
            sig == tech.macd_signal.v
            points == IF macd > sig THEN 2
                      ELSE IF macd <= sig /\ 10 * macd > 9 * sig THEN 1
                      ELSE 0
        IN  /\ scoresLast.technical = MacdAloneScore(points)
            /\ sig <= 0 => scoresLast.technical # MacdAloneScore(1)

\* a MACD one hundredth under a negative signal earned nothing
C30_Witness ==
    /\ MacdAlone
    /\ tech.macd_signal.v = -100
    /\ tech.macd.v = -101
    /\ scoresLast.technical = MacdAloneScore(0)

=============================================================================
